---------------------------- MODULE Spec2Model ----------------------------
(***************************************************************************)
(* SmartDairy (src/app.py): the record store, the request handlers that    *)
(* write it and the aggregation handlers (dashboard, salary_report) that   *)
(* read it.                                                                *)
(*                                                                         *)
(* Conventions.                                                            *)
(*   - A nullable column or Python None is a sequence: None is << >> and   *)
(*     a value v is <<v>>.                                                 *)
(*   - A form field is a tagged record: Empty (the field is missing or     *)
(*     ""), Junk (a non-empty text that parses as nothing), Num(n) (the    *)
(*     decimal text of n), DateStr(d) (the text "YYYY-MM-DD" of a date)    *)
(*     and MonthOf(d) (the text "YYYY-MM").                                *)
(*   - Litres are fixed point, in tenths of a litre (69 is 6.9 l); the     *)
(*     mean of a group of records is kept exact, as the pair sum, count.   *)
(*   - A list the code builds from an unordered query is a sequence in id  *)
(*     order; ORDER BY name or date is not modelled.                       *)
(*   - One request reads the clock once: `today`.                          *)
(*   - A handler is one step, except where requests are served at the     *)
(*     same time: there worker_edit, register and the restore are cut at   *)
(*     their queries and commits, and `inflight` holds how far each        *)
(*     request has got.  db.session.commit() writes the columns whose      *)
(*     value differs from the loaded one.                                  *)
(*   - `session` is the cookie of the browser that sends the request and   *)
(*     `parked` the cookie of a second browser.                            *)
(***************************************************************************)
EXTENDS Integers, Sequences, FiniteSets, TLC

VARIABLES
    workers,          \* table workers: set of rows
    salary_payments,  \* table salary_payments
    expenses,         \* table expenses
    buffaloes,        \* table buffaloes
    milk_records,     \* table milk_records
    today,            \* the clock: date.today()
    session,          \* the requesting browser's session
    users,            \* table users
    now,              \* the clock: datetime.utcnow(), in minutes
    sms,              \* the OTP messages handed to send_otp_via_mobile, in order
    inflight,         \* the requests being served: how far each one has got
    parked,           \* the session cookie of the other browser
    response          \* what the last request returned

vars == <<workers, salary_payments, expenses, buffaloes, milk_records,
          today, session, users, now, sms, inflight, parked, response>>

db == <<users, buffaloes, workers, salary_payments, expenses, milk_records>>

-----------------------------------------------------------------------------
(* Bounds of the model *)

MaxWorkers == 2
MaxPayments == 2
MaxExpenses == 2
MaxMilk == 3

-----------------------------------------------------------------------------
(* Python values *)

None == << >>
Some(v) == <<v>>

\* bool(x) of an optional number: None and 0 are falsy
Truthy(x) == x # None /\ x[1] # 0

\* x or 0, of an optional number
Or0(x) == IF Truthy(x) THEN x[1] ELSE 0

\* n or 0, of a number
OrZero(n) == IF n # 0 THEN n ELSE 0

\* func.coalesce(x, d)
Coalesce(x, d) == IF x = None THEN d ELSE x[1]

\* dict.get(k, default)
DictGet(dict, k, default) == IF k \in DOMAIN dict THEN dict[k] ELSE default

Max2(a, b) == IF a >= b THEN a ELSE b

(* Form fields *)

Empty == [t |-> "empty"]
Junk == [t |-> "junk"]
Num(n) == [t |-> "num", v |-> n]
DateStr(d) == [t |-> "date", v |-> d]

\* `not field`: request.form.get gives None or "" for it
Missing(f) == f.t = "empty"

\* int(field) and float(field) raise ValueError unless the text is a number
IsNumber(f) == f.t = "num"

\* datetime.strptime(field, "%Y-%m-%d") raises ValueError unless it is a date
IsDate(f) == f.t = "date"

-----------------------------------------------------------------------------
(* datetime.date *)

Years == {2025, 2026}

IsLeap(y) == (y % 4 = 0 /\ y % 100 # 0) \/ y % 400 = 0

DaysInMonth(y, m) ==
    IF m = 2 THEN (IF IsLeap(y) THEN 29 ELSE 28)
    ELSE IF m \in {4, 6, 9, 11} THEN 30 ELSE 31

Date(y, m, d) == [y |-> y, m |-> m, d |-> d]

Dates ==
    {dd \in {Date(y, m, d) : y \in Years, m \in 1..12, d \in 1..31} :
        dd.d <= DaysInMonth(dd.y, dd.m)}

\* a < b on dates
DateLT(a, b) ==
    \/ a.y < b.y
    \/ a.y = b.y /\ a.m < b.m
    \/ a.y = b.y /\ a.m = b.m /\ a.d < b.d

DateLE(a, b) == a = b \/ DateLT(a, b)

PrevDay(a) ==
    IF a.d > 1 THEN Date(a.y, a.m, a.d - 1)
    ELSE IF a.m > 1 THEN Date(a.y, a.m - 1, DaysInMonth(a.y, a.m - 1))
    ELSE Date(a.y - 1, 12, 31)

NextDay(a) ==
    IF a.d < DaysInMonth(a.y, a.m) THEN Date(a.y, a.m, a.d + 1)
    ELSE IF a.m < 12 THEN Date(a.y, a.m + 1, 1)
    ELSE Date(a.y + 1, 1, 1)

\* a - timedelta(days=n)
RECURSIVE MinusDays(_, _)
MinusDays(a, n) == IF n = 0 THEN a ELSE MinusDays(PrevDay(a), n - 1)

\* a.strftime("%Y-%m")
MonthOf(a) == [t |-> "month", y |-> a.y, m |-> a.m]

-----------------------------------------------------------------------------
(* Rows and queries *)

Text(s) == [t |-> "text", v |-> s]

Ids(table) == {r.id : r \in table}

RECURSIVE MaxOf(_)
MaxOf(S) ==
    IF S = {} THEN 0
    ELSE LET x == CHOOSE x \in S : TRUE IN Max2(x, MaxOf(S \ {x}))

\* the id the store gives the next inserted row (INTEGER PRIMARY KEY: max + 1)
NextId(table) == MaxOf(Ids(table)) + 1

\* Model.query.get(id): the row, when there is one
Get(table, id) == CHOOSE r \in table : r.id = id

Exists(table, id) == id \in Ids(table)

\* the rows of a query without ORDER BY, as the list the code iterates
RECURSIVE SeqById(_)
SeqById(S) ==
    IF S = {} THEN << >>
    ELSE LET r == CHOOSE r \in S : \A q \in S : r.id <= q.id
         IN <<r>> \o SeqById(S \ {r})

\* func.sum(X.amount) over a set of rows (0 for no row: the callers coalesce)
RECURSIVE SumAmount(_)
SumAmount(S) ==
    IF S = {} THEN 0
    ELSE LET r == CHOOSE r \in S : TRUE IN r.amount + SumAmount(S \ {r})

Range(s) == {s[i] : i \in DOMAIN s}

-----------------------------------------------------------------------------
(* Responses *)

Flash(msg, category) == [message |-> msg, category |-> category]

Redirect(loc, flashes) == [kind |-> "redirect", location |-> loc, flash |-> flashes]

\* get_or_404 found nothing
NotFound == [kind |-> "not_found"]

\* an exception nothing catches: int("abc"), an IntegrityError at commit
ServerError == [kind |-> "server_error"]

NoResponse == [kind |-> "none"]

-----------------------------------------------------------------------------
(* Access control *)

NoSession == [user_id |-> None, role |-> "none"]

AdminSession == [user_id |-> Some(1), role |-> "admin"]

UserSession == [user_id |-> Some(2), role |-> "user"]

\* login_required lets the request through
LoginPasses == session.user_id # None

\* what login_required answers otherwise
LoginDenied == Redirect("login", << >>)

\* admin_required lets the request through
AdminPasses == session.user_id # None /\ session.role = "admin"

\* what admin_required answers otherwise
AdminDenied ==
    IF session.user_id = None THEN Redirect("admin_login", << >>)
    ELSE Redirect("dashboard", <<Flash("Admin access required.", "error")>>)

\* a request that leaves the store as it is and answers r
Answer(r) ==
    /\ response' = r
    /\ UNCHANGED <<workers, salary_payments, expenses, buffaloes, milk_records,
                   today, inflight, parked, session, users, now, sms>>

(* Requests in flight *)

\* the requests the server works on at the same time
Requests == {"a", "b"}

\* a request slot no request is using
Idle == [pc |-> "idle"]

NoRequests == [r \in Requests |-> Idle]

\* what request r does to its slot while the others stay as they are
Moved(r, slot) == [inflight EXCEPT ![r] = slot]

\* request r returns answer: its slot is free again, the store is as it was
Finish(r, answer) ==
    /\ response' = answer
    /\ inflight' = Moved(r, Idle)
    /\ UNCHANGED <<workers, salary_payments, expenses, buffaloes, milk_records,
                   today, parked, session, users, now, sms>>

\* request r gets as far as slot and has not answered yet
Proceed(r, slot) ==
    /\ inflight' = Moved(r, slot)
    /\ UNCHANGED <<workers, salary_payments, expenses, buffaloes, milk_records,
                   today, parked, session, users, now, sms, response>>

-----------------------------------------------------------------------------
(* Aggregation: salary *)

\* func.sum(SalaryPayment.amount) / func.sum(Expense.amount): NULL over no row
SqlSumAmount(S) == IF S = {} THEN None ELSE Some(SumAmount(S))

\* filter(SalaryPayment.month == month)
PaymentsOfMonth(month) == {p \in salary_payments : p.month = month}

\* the grouped query of dashboard and salary_report, as the dict built from it
PaymentsByWorker(month) ==
    LET P == PaymentsOfMonth(month)
    IN  [wid \in {p.worker_id : p \in P} |->
            Coalesce(SqlSumAmount({p \in P : p.worker_id = wid}), 0)]

\* Worker.query.filter_by(status="active").all()
ActiveWorkers == SeqById({w \in workers : w.status = "active"})

\* mutant: the dashboard takes every worker as unpaid
DueEntry_Unpaid(w, month) ==
    LET expected == Or0(w.salary_per_month)
    IN  [worker |-> w.id, expected |-> expected, paid |-> 0, due |-> expected]

\* one pass of the dashboard's loop over the active workers
DueEntry(w, month) ==
    LET expected == Or0(w.salary_per_month)
        paid == OrZero(DictGet(PaymentsByWorker(month), w.id, 0))
    IN  [worker |-> w.id, expected |-> expected, paid |-> paid,
         due |-> expected - paid]

\* mutant: a worker who owes nothing (due = 0) is listed too
DueWorkers_ListsSettled(month) ==
    LET Listed(w) == Truthy(w.salary_per_month) /\ DueEntry(w, month).due >= 0
        kept == SelectSeq(ActiveWorkers, Listed)
    IN  [i \in DOMAIN kept |-> DueEntry(kept[i], month)]

\* the dashboard's due_workers
DueWorkers(month) ==
    LET Listed(w) == Truthy(w.salary_per_month) /\ DueEntry(w, month).due > 0
        kept == SelectSeq(ActiveWorkers, Listed)
    IN  [i \in DOMAIN kept |-> DueEntry(kept[i], month)]

\* mutant: a worker paid exactly the expected salary counts as partly paid
ReportStatus_PaidUpIsPartial(w, expected, paid) ==
    IF w.salary_per_month = None THEN "Salary not set"
    ELSE IF expected = 0 THEN "Salary set as 0"
    ELSE IF paid = 0 THEN "Not Paid"
    ELSE IF paid <= expected THEN "Partially Paid"
    ELSE "Paid"

\* the status salary_report gives a row
ReportStatus(w, expected, paid) ==
    IF w.salary_per_month = None THEN "Salary not set"
    ELSE IF expected = 0 THEN "Salary set as 0"
    ELSE IF paid = 0 THEN "Not Paid"
    ELSE IF paid < expected THEN "Partially Paid"
    ELSE "Paid"

\* mutant: the report's due is not floored at 0
ReportRow_Unfloored(w, month) ==
    LET expected == Or0(w.salary_per_month)
        paid == OrZero(DictGet(PaymentsByWorker(month), w.id, 0))
    IN  [worker |-> w.id, expected |-> expected, paid |-> paid,
         due |-> expected - paid,
         status |-> ReportStatus(w, expected, paid)]

\* one pass of salary_report's loop over the active workers
ReportRow(w, month) ==
    LET expected == Or0(w.salary_per_month)
        paid == OrZero(DictGet(PaymentsByWorker(month), w.id, 0))
    IN  [worker |-> w.id, expected |-> expected, paid |-> paid,
         due |-> Max2(expected - paid, 0),
         status |-> ReportStatus(w, expected, paid)]

ReportRows(month) == [i \in DOMAIN ActiveWorkers |-> ReportRow(ActiveWorkers[i], month)]

RECURSIVE SumField(_, _)
SumField(rows, field) ==
    IF rows = << >> THEN 0 ELSE Head(rows)[field] + SumField(Tail(rows), field)

-----------------------------------------------------------------------------
(* Aggregation: costs of the month *)

\* today.replace(day=1)
FirstDay(t) == Date(t.y, t.m, 1)

\* mutant: December rolls over to January of the same year
NextMonthFirst_SameYear(first_day) ==
    IF first_day.m = 12 THEN Date(first_day.y, 1, 1)
    ELSE Date(first_day.y, first_day.m + 1, 1)

\* the first day of the month after first_day's
NextMonthFirst(first_day) ==
    IF first_day.m = 12 THEN Date(first_day.y + 1, 1, 1)
    ELSE Date(first_day.y, first_day.m + 1, 1)

\* filter(X.date >= lo, X.date < hi)
InRange(d, lo, hi) == DateLE(lo, d) /\ DateLT(d, hi)

\* mutant: the salary total is not filtered by the month key
MonthSalaryTotal_AllMonths(t) == Coalesce(SqlSumAmount(salary_payments), 0)

MonthSalaryTotal(t) == Coalesce(SqlSumAmount(PaymentsOfMonth(MonthOf(t))), 0)

MonthExpenseTotal(t) ==
    LET first_day == FirstDay(t)
        next_month_first == NextMonthFirst(first_day)
    IN  Coalesce(SqlSumAmount({e \in expenses :
                     InRange(e.date, first_day, next_month_first)}), 0)

MonthTotalCost(t) == OrZero(MonthSalaryTotal(t)) + OrZero(MonthExpenseTotal(t))

-----------------------------------------------------------------------------
(* Aggregation: milk *)

\* lookback_days
LookbackDays == 7

\* the low-yield threshold 0.7, as ThresholdNum / ThresholdDen
ThresholdNum == 7
ThresholdDen == 10

\* MilkRecord.total_litres
TotalLitres(r) ==
    LET m == Or0(r.morning_litres)
        e == Or0(r.evening_litres)
    IN  m + e

\* mutant: without the coalesce a record with an absent reading adds nothing
SqlTotal_NullPropagates(r) ==
    IF r.morning_litres = None \/ r.evening_litres = None THEN 0
    ELSE r.morning_litres[1] + r.evening_litres[1]

\* coalesce(morning_litres, 0) + coalesce(evening_litres, 0), the SQL expression
SqlTotal(r) == Coalesce(r.morning_litres, 0) + Coalesce(r.evening_litres, 0)

\* (r.morning_litres or 0) + (r.evening_litres or 0), in the alert loop
LoopTotal(r) == Or0(r.morning_litres) + Or0(r.evening_litres)

RECURSIVE SumSqlTotal(_)
SumSqlTotal(S) ==
    IF S = {} THEN 0
    ELSE LET r == CHOOSE r \in S : TRUE IN SqlTotal(r) + SumSqlTotal(S \ {r})

\* func.sum(coalesce(morning, 0) + coalesce(evening, 0)): NULL over no row
SqlSumLitres(S) == IF S = {} THEN None ELSE Some(SumSqlTotal(S))

\* today - timedelta(days=lookback_days)
StartPeriod(t) == MinusDays(t, LookbackDays)

\* mutant: the first day of the window is left out
LookbackRecords_OpenStart(t) ==
    {r \in milk_records : DateLT(StartPeriod(t), r.date) /\ DateLT(r.date, t)}

\* filter(MilkRecord.date >= start_period, MilkRecord.date < today)
LookbackRecords(t) == {r \in milk_records : InRange(r.date, StartPeriod(t), t)}

\* func.avg over a group: the exact mean sum / n
SqlAvgLitres(S) == [sum |-> SumSqlTotal(S), n |-> Cardinality(S)]

\* mutant: the average is not grouped by animal
AvgByBuffalo_Ungrouped(t) ==
    LET W == LookbackRecords(t)
    IN  [b \in {r.buffalo_id : r \in milk_records} |-> SqlAvgLitres(W)]

\* avg_by_buffalo: one key per animal with a record in the lookback window
AvgByBuffalo(t) ==
    LET W == LookbackRecords(t)
    IN  [b \in {r.buffalo_id : r \in W} |->
            SqlAvgLitres({r \in W : r.buffalo_id = b})]

\* MilkRecord.query.filter_by(date=today).all()
TodayRecords(t) == SeqById({r \in milk_records : r.date = t})

\* mutant: a yield of exactly 70% of the average is flagged too
BelowThreshold_Inclusive(today_total, avg) ==
    ThresholdDen * today_total * avg.n <= ThresholdNum * avg.sum

\* today_total < 0.7 * avg
BelowThreshold(today_total, avg) ==
    ThresholdDen * today_total * avg.n < ThresholdNum * avg.sum

\* r.buffalo: the animal of the record, None when no such animal is stored
BuffaloOf(r) == IF Exists(buffaloes, r.buffalo_id) THEN Some(r.buffalo_id) ELSE None

\* low_milk_alerts
LowMilkAlerts(t) ==
    LET avgs == AvgByBuffalo(t)
        Alert(r) == /\ r.buffalo_id \in DOMAIN avgs
                    /\ BelowThreshold(LoopTotal(r), avgs[r.buffalo_id])
        kept == SelectSeq(TodayRecords(t), Alert)
    IN  [i \in DOMAIN kept |->
            [buffalo |-> BuffaloOf(kept[i]),
             today_total |-> LoopTotal(kept[i]),
             avg_total |-> avgs[kept[i].buffalo_id]]]

TodayMilkTotal(t) == Coalesce(SqlSumLitres({r \in milk_records : r.date = t}), 0)

MonthMilkTotal(t) ==
    LET first_day_milk == FirstDay(t)
        next_month_first_milk == NextMonthFirst(first_day_milk)
    IN  Coalesce(SqlSumLitres({r \in milk_records :
                     InRange(r.date, first_day_milk, next_month_first_milk)}), 0)

-----------------------------------------------------------------------------
(* The aggregation handlers *)

DashboardView(t) ==
    [kind |-> "dashboard",
     total_buffaloes |-> Cardinality(buffaloes),
     active_buffaloes |-> Cardinality({b \in buffaloes : b.status = "active"}),
     total_workers |-> Cardinality(workers),
     active_workers |-> Len(ActiveWorkers),
     month_str |-> MonthOf(t),
     month_salary_total |-> MonthSalaryTotal(t),
     month_expense_total |-> MonthExpenseTotal(t),
     month_total_cost |-> MonthTotalCost(t),
     due_workers |-> DueWorkers(MonthOf(t)),
     due_count |-> Len(DueWorkers(MonthOf(t))),
     low_milk_alerts |-> LowMilkAlerts(t),
     low_milk_count |-> Len(LowMilkAlerts(t)),
     today_milk_total |-> TodayMilkTotal(t),
     month_milk_total |-> MonthMilkTotal(t)]

\* mutant: the dashboard clears the milk records it has reported on
Dashboard_ClearsRecords ==
    IF ~LoginPasses THEN Answer(LoginDenied)
    ELSE /\ response' = DashboardView(today)
         /\ milk_records' = {}
         /\ UNCHANGED <<workers, salary_payments, expenses, buffaloes,
                        today, inflight, parked, session, users, now, sms>>

\* the sections of the dashboard in which a query of the data store can
\* fail ("none": no query fails)
QuerySections ==
    {"none", "counts", "costs", "due_workers", "alerts", "milk_totals"}

\* GET /, while the data store fails in one section.  The alerts section is
\* inside try / except Exception, which puts an empty list in place of the
\* result; a failure anywhere else is raised out of the view.
DashboardUnder(failure) ==
    IF ~LoginPasses THEN Answer(LoginDenied)
    ELSE IF failure = "none" THEN Answer(DashboardView(today))
    ELSE IF failure = "alerts"
    THEN Answer([DashboardView(today) EXCEPT !.low_milk_alerts = << >>,
                                             !.low_milk_count = 0])
    ELSE Answer(ServerError)

\* GET /
Dashboard == DashboardUnder("none")

SalaryReportView(month) ==
    LET rows == ReportRows(month)
    IN  [kind |-> "salary_report",
         month |-> month,
         month_values |-> {p.month : p \in salary_payments},
         rows |-> rows,
         total_expected |-> SumField(rows, "expected"),
         total_paid |-> SumField(rows, "paid"),
         total_due |-> SumField(rows, "due")]

\* GET /reports/salary?month=
SalaryReport(month_arg) ==
    IF ~LoginPasses THEN Answer(LoginDenied)
    ELSE LET month == IF Missing(month_arg) THEN MonthOf(today) ELSE month_arg
         IN  Answer(SalaryReportView(month))

\* total, in the CSV and PDF loops of milk_record_list
ExportTotal(r) == Or0(r.morning_litres) + Or0(r.evening_litres)

\* the records milk_record_list shows: joined with their animal, filtered
MilkListRecords(date_arg, buffalo_arg) ==
    SeqById({r \in milk_records :
        /\ Exists(buffaloes, r.buffalo_id)
        /\ IsDate(date_arg) => r.date = date_arg.v
        /\ IsNumber(buffalo_arg) => r.buffalo_id = buffalo_arg.v})

\* GET /milk-records?download=csv
MilkRecordListCsv(date_arg, buffalo_arg) ==
    IF ~LoginPasses THEN Answer(LoginDenied)
    ELSE LET records == MilkListRecords(date_arg, buffalo_arg)
         IN  Answer([kind |-> "milk_csv",
                     rows |-> [i \in DOMAIN records |->
                        [id |-> records[i].id,
                         date |-> records[i].date,
                         buffalo |-> records[i].buffalo_id,
                         morning |-> Or0(records[i].morning_litres),
                         evening |-> Or0(records[i].evening_litres),
                         total |-> ExportTotal(records[i])]]])

-----------------------------------------------------------------------------
(* Workers.  A form is a record of its fields; the free-text fields that no *)
(* computation reads (alt_mobile, role, bank details, notes) are left out.  *)

\* request.form.get("status") or "active"
StatusOf(f) == IF Missing(f) THEN "active" ELSE f.v

\* int(x) if x else None
OptInt(f) == IF Missing(f) THEN None ELSE Some(f.v)

\* the joining date worker_add stores: None unless the text is a date
JoiningDateOf(f) == IF IsDate(f) THEN Some(f.v) ELSE None

\* the messages flashed on the way to a save
DateFlash(f, msg) ==
    IF ~Missing(f) /\ ~IsDate(f) THEN <<Flash(msg, "error")>> ELSE << >>

\* POST /workers/add
WorkerAdd(form) ==
    IF ~LoginPasses THEN Answer(LoginDenied)
    ELSE IF Missing(form.name) \/ Missing(form.mobile)
    THEN Answer(Redirect("worker_add", <<Flash("Name and mobile are required", "error")>>))
    ELSE IF ~Missing(form.salary_per_month) /\ ~IsNumber(form.salary_per_month)
    THEN Answer(ServerError)
    ELSE /\ NextId(workers) <= MaxWorkers
         /\ workers' = workers \cup
              {[id |-> NextId(workers),
                name |-> form.name,
                mobile |-> form.mobile,
                joining_date |-> JoiningDateOf(form.joining_date),
                salary_per_month |-> OptInt(form.salary_per_month),
                status |-> StatusOf(form.status)]}
         /\ response' = Redirect("worker_list",
                DateFlash(form.joining_date, "Invalid joining date")
                \o <<Flash("Worker saved successfully!", "success")>>)
         /\ UNCHANGED <<salary_payments, expenses, buffaloes, milk_records,
                        today, inflight, parked, session, users, now, sms>>

\* POST /workers/<worker_id>/edit
WorkerEdit(worker_id, form) ==
    IF ~LoginPasses THEN Answer(LoginDenied)
    ELSE IF ~Exists(workers, worker_id) THEN Answer(NotFound)
    ELSE IF Missing(form.name) \/ Missing(form.mobile)
    THEN Answer(Redirect("worker_edit", <<Flash("Name and mobile are required", "error")>>))
    ELSE IF ~Missing(form.salary_per_month) /\ ~IsNumber(form.salary_per_month)
    THEN Answer(ServerError)
    ELSE LET worker == Get(workers, worker_id)
         IN  /\ workers' = (workers \ {worker}) \cup
                  {[id |-> worker.id,
                    name |-> form.name,
                    mobile |-> form.mobile,
                    joining_date |-> IF IsDate(form.joining_date)
                                     THEN Some(form.joining_date.v)
                                     ELSE worker.joining_date,
                    salary_per_month |-> OptInt(form.salary_per_month),
                    status |-> StatusOf(form.status)]}
             /\ response' = Redirect("worker_list",
                    DateFlash(form.joining_date, "Invalid joining date")
                    \o <<Flash("Worker updated successfully!", "success")>>)
             /\ UNCHANGED <<salary_payments, expenses, buffaloes, milk_records,
                            today, inflight, parked, session, users, now, sms>>

\* mutant: any logged-in session may delete a worker
WorkerDelete_LoginOnly(worker_id) ==
    IF ~LoginPasses THEN Answer(LoginDenied)
    ELSE IF ~Exists(workers, worker_id) THEN Answer(NotFound)
    ELSE IF \E p \in salary_payments : p.worker_id = worker_id
    THEN Answer(ServerError)
    ELSE /\ workers' = workers \ {Get(workers, worker_id)}
         /\ response' = Redirect("worker_list",
                <<Flash("Worker record deleted.", "success")>>)
         /\ UNCHANGED <<salary_payments, expenses, buffaloes, milk_records,
                        today, inflight, parked, session, users, now, sms>>

\* POST /workers/<worker_id>/delete.  Deleting a worker that payments refer to
\* makes the ORM set their worker_id to NULL, which the NOT NULL column
\* refuses at commit.
WorkerDelete(worker_id) ==
    IF ~AdminPasses THEN Answer(AdminDenied)
    ELSE IF ~Exists(workers, worker_id) THEN Answer(NotFound)
    ELSE IF \E p \in salary_payments : p.worker_id = worker_id
    THEN Answer(ServerError)
    ELSE /\ workers' = workers \ {Get(workers, worker_id)}
         /\ response' = Redirect("worker_list",
                <<Flash("Worker record deleted.", "success")>>)
         /\ UNCHANGED <<salary_payments, expenses, buffaloes, milk_records,
                        today, inflight, parked, session, users, now, sms>>

-----------------------------------------------------------------------------
(* Salary payments *)

SalaryRequired(form) ==
    ~Missing(form.worker_id) /\ ~Missing(form.month)
    /\ ~Missing(form.amount) /\ ~Missing(form.date_paid)

\* POST /salaries/add
SalaryAdd(form) ==
    IF ~LoginPasses THEN Answer(LoginDenied)
    ELSE IF ~SalaryRequired(form)
    THEN Answer(Redirect("salary_add",
            <<Flash("Worker, month, amount and date paid are required.", "error")>>))
    ELSE IF ~IsDate(form.date_paid)
    THEN Answer(Redirect("salary_add", <<Flash("Invalid paid date.", "error")>>))
    ELSE IF ~IsNumber(form.worker_id) \/ ~IsNumber(form.amount)
    THEN Answer(ServerError)
    ELSE /\ NextId(salary_payments) <= MaxPayments
         /\ salary_payments' = salary_payments \cup
              {[id |-> NextId(salary_payments),
                worker_id |-> form.worker_id.v,
                month |-> form.month,
                amount |-> form.amount.v,
                date_paid |-> form.date_paid.v]}
         /\ response' = Redirect("salary_list",
                <<Flash("Salary payment recorded successfully!", "success")>>)
         /\ UNCHANGED <<workers, expenses, buffaloes, milk_records, today, inflight,
                        parked, session, users, now, sms>>

\* POST /salaries/<payment_id>/edit
SalaryEdit(payment_id, form) ==
    IF ~LoginPasses THEN Answer(LoginDenied)
    ELSE IF ~Exists(salary_payments, payment_id) THEN Answer(NotFound)
    ELSE IF ~SalaryRequired(form)
    THEN Answer(Redirect("salary_edit",
            <<Flash("Worker, month, amount and date paid are required.", "error")>>))
    ELSE IF ~IsDate(form.date_paid)
    THEN Answer(Redirect("salary_edit", <<Flash("Invalid paid date.", "error")>>))
    ELSE IF ~IsNumber(form.worker_id) \/ ~IsNumber(form.amount)
    THEN Answer(ServerError)
    ELSE LET payment == Get(salary_payments, payment_id)
         IN  /\ salary_payments' = (salary_payments \ {payment}) \cup
                  {[id |-> payment.id,
                    worker_id |-> form.worker_id.v,
                    month |-> form.month,
                    amount |-> form.amount.v,
                    date_paid |-> form.date_paid.v]}
             /\ response' = Redirect("salary_list",
                    <<Flash("Salary payment updated successfully!", "success")>>)
             /\ UNCHANGED <<workers, expenses, buffaloes, milk_records, today, inflight,
                            parked, session, users, now, sms>>

\* POST /salaries/<payment_id>/delete
SalaryDelete(payment_id) ==
    IF ~AdminPasses THEN Answer(AdminDenied)
    ELSE IF ~Exists(salary_payments, payment_id) THEN Answer(NotFound)
    ELSE /\ salary_payments' = salary_payments \ {Get(salary_payments, payment_id)}
         /\ response' = Redirect("salary_list",
                <<Flash("Salary payment deleted.", "success")>>)
         /\ UNCHANGED <<workers, expenses, buffaloes, milk_records, today, inflight,
                        parked, session, users, now, sms>>

-----------------------------------------------------------------------------
(* Expenses *)

ExpenseRequired(form) ==
    ~Missing(form.date) /\ ~Missing(form.category) /\ ~Missing(form.amount)

\* POST /expenses/add
ExpenseAdd(form) ==
    IF ~LoginPasses THEN Answer(LoginDenied)
    ELSE IF ~ExpenseRequired(form)
    THEN Answer(Redirect("expense_add",
            <<Flash("Date, category and amount are required.", "error")>>))
    ELSE IF ~IsDate(form.date)
    THEN Answer(Redirect("expense_add", <<Flash("Invalid date.", "error")>>))
    ELSE IF ~IsNumber(form.amount) THEN Answer(ServerError)
    ELSE /\ NextId(expenses) <= MaxExpenses
         /\ expenses' = expenses \cup
              {[id |-> NextId(expenses),
                date |-> form.date.v,
                category |-> form.category,
                amount |-> form.amount.v]}
         /\ response' = Redirect("expense_list",
                <<Flash("Expense recorded successfully!", "success")>>)
         /\ UNCHANGED <<workers, salary_payments, buffaloes, milk_records,
                        today, inflight, parked, session, users, now, sms>>

\* POST /expenses/<expense_id>/edit
ExpenseEdit(expense_id, form) ==
    IF ~LoginPasses THEN Answer(LoginDenied)
    ELSE IF ~Exists(expenses, expense_id) THEN Answer(NotFound)
    ELSE IF ~ExpenseRequired(form)
    THEN Answer(Redirect("expense_edit",
            <<Flash("Date, category and amount are required.", "error")>>))
    ELSE IF ~IsDate(form.date)
    THEN Answer(Redirect("expense_edit", <<Flash("Invalid date.", "error")>>))
    ELSE IF ~IsNumber(form.amount) THEN Answer(ServerError)
    ELSE LET expense == Get(expenses, expense_id)
         IN  /\ expenses' = (expenses \ {expense}) \cup
                  {[id |-> expense.id,
                    date |-> form.date.v,
                    category |-> form.category,
                    amount |-> form.amount.v]}
             /\ response' = Redirect("expense_list",
                    <<Flash("Expense updated successfully!", "success")>>)
             /\ UNCHANGED <<workers, salary_payments, buffaloes, milk_records,
                            today, inflight, parked, session, users, now, sms>>

\* POST /expenses/<expense_id>/delete
ExpenseDelete(expense_id) ==
    IF ~AdminPasses THEN Answer(AdminDenied)
    ELSE IF ~Exists(expenses, expense_id) THEN Answer(NotFound)
    ELSE /\ expenses' = expenses \ {Get(expenses, expense_id)}
         /\ response' = Redirect("expense_list", <<Flash("Expense deleted.", "success")>>)
         /\ UNCHANGED <<workers, salary_payments, buffaloes, milk_records,
                        today, inflight, parked, session, users, now, sms>>

-----------------------------------------------------------------------------
(* Milk records *)

\* float(x) if x else None
OptFloat(f) == IF Missing(f) THEN None ELSE Some(f.v)

MilkNumbersOk(form) ==
    /\ IsNumber(form.buffalo_id)
    /\ Missing(form.morning_litres) \/ IsNumber(form.morning_litres)
    /\ Missing(form.evening_litres) \/ IsNumber(form.evening_litres)

\* POST /milk-records/add
MilkRecordAdd(form) ==
    IF ~LoginPasses THEN Answer(LoginDenied)
    ELSE IF Missing(form.buffalo_id) \/ Missing(form.date)
    THEN Answer(Redirect("milk_record_add",
            <<Flash("Buffalo and date are required.", "error")>>))
    ELSE IF ~IsDate(form.date)
    THEN Answer(Redirect("milk_record_add", <<Flash("Invalid date.", "error")>>))
    ELSE IF ~MilkNumbersOk(form) THEN Answer(ServerError)
    ELSE /\ NextId(milk_records) <= MaxMilk
         /\ milk_records' = milk_records \cup
              {[id |-> NextId(milk_records),
                buffalo_id |-> form.buffalo_id.v,
                date |-> form.date.v,
                morning_litres |-> OptFloat(form.morning_litres),
                evening_litres |-> OptFloat(form.evening_litres)]}
         /\ response' = Redirect("milk_record_list",
                <<Flash("Milk record added.", "success")>>)
         /\ UNCHANGED <<workers, salary_payments, expenses, buffaloes, today, inflight,
                        parked, session, users, now, sms>>

\* POST /milk-records/<record_id>/edit
MilkRecordEdit(record_id, form) ==
    IF ~LoginPasses THEN Answer(LoginDenied)
    ELSE IF ~Exists(milk_records, record_id) THEN Answer(NotFound)
    ELSE IF Missing(form.buffalo_id) \/ Missing(form.date)
    THEN Answer(Redirect("milk_record_edit",
            <<Flash("Buffalo and date are required.", "error")>>))
    ELSE IF ~IsDate(form.date)
    THEN Answer(Redirect("milk_record_edit", <<Flash("Invalid date.", "error")>>))
    ELSE IF ~MilkNumbersOk(form) THEN Answer(ServerError)
    ELSE LET record == Get(milk_records, record_id)
         IN  /\ milk_records' = (milk_records \ {record}) \cup
                  {[id |-> record.id,
                    buffalo_id |-> form.buffalo_id.v,
                    date |-> form.date.v,
                    morning_litres |-> OptFloat(form.morning_litres),
                    evening_litres |-> OptFloat(form.evening_litres)]}
             /\ response' = Redirect("milk_record_list",
                    <<Flash("Milk record updated.", "success")>>)
             /\ UNCHANGED <<workers, salary_payments, expenses, buffaloes,
                            today, inflight, parked, session, users, now, sms>>

\* mutant: the record is deleted by id without being looked up first
MilkRecordDelete_NoLookup(record_id) ==
    IF ~AdminPasses THEN Answer(AdminDenied)
    ELSE /\ milk_records' = {r \in milk_records : r.id # record_id}
         /\ response' = Redirect("milk_record_list",
                <<Flash("Milk record deleted.", "success")>>)
         /\ UNCHANGED <<workers, salary_payments, expenses, buffaloes,
                        today, inflight, parked, session, users, now, sms>>

\* POST /milk-records/<record_id>/delete
MilkRecordDelete(record_id) ==
    IF ~AdminPasses THEN Answer(AdminDenied)
    ELSE IF ~Exists(milk_records, record_id) THEN Answer(NotFound)
    ELSE /\ milk_records' = milk_records \ {Get(milk_records, record_id)}
         /\ response' = Redirect("milk_record_list",
                <<Flash("Milk record deleted.", "success")>>)
         /\ UNCHANGED <<workers, salary_payments, expenses, buffaloes, today, inflight,
                        parked, session, users, now, sms>>

-----------------------------------------------------------------------------
(* Animals *)

MaxBuffaloes == 2

\* the purchase date buffalo_add stores: None unless the text is a date
PurchaseDateOf(f) == IF IsDate(f) THEN Some(f.v) ELSE None

\* POST /buffaloes/add
BuffaloAdd(form) ==
    IF ~LoginPasses THEN Answer(LoginDenied)
    ELSE IF Missing(form.tag_name)
    THEN Answer(Redirect("buffalo_add", <<Flash("Tag/Name is required", "error")>>))
    ELSE IF ~Missing(form.purchase_price) /\ ~IsNumber(form.purchase_price)
    THEN Answer(ServerError)
    ELSE /\ NextId(buffaloes) <= MaxBuffaloes
         /\ buffaloes' = buffaloes \cup
              {[id |-> NextId(buffaloes),
                tag_name |-> form.tag_name,
                animal_type |-> IF Missing(form.animal_type) THEN "buffalo"
                                ELSE form.animal_type.v,
                purchase_date |-> PurchaseDateOf(form.purchase_date),
                purchase_price |-> OptInt(form.purchase_price),
                status |-> StatusOf(form.status)]}
         /\ response' = Redirect("buffalo_list",
                DateFlash(form.purchase_date, "Invalid purchase date")
                \o <<Flash("Buffalo saved successfully!", "success")>>)
         /\ UNCHANGED <<workers, salary_payments, expenses, milk_records,
                        today, inflight, parked, session, users, now, sms>>

\* POST /buffaloes/<buffalo_id>/edit.  The fields are assigned before the
\* tag is looked at; a return without commit drops the assignments.
BuffaloEdit(buffalo_id, form) ==
    IF ~LoginPasses THEN Answer(LoginDenied)
    ELSE IF ~Exists(buffaloes, buffalo_id) THEN Answer(NotFound)
    ELSE IF ~Missing(form.purchase_price) /\ ~IsNumber(form.purchase_price)
    THEN Answer(ServerError)
    ELSE IF Missing(form.tag_name)
    THEN Answer(Redirect("buffalo_edit",
            DateFlash(form.purchase_date, "Invalid purchase date")
            \o <<Flash("Tag/Name is required", "error")>>))
    ELSE LET buffalo == Get(buffaloes, buffalo_id)
         IN  /\ buffaloes' = (buffaloes \ {buffalo}) \cup
                  {[id |-> buffalo.id,
                    tag_name |-> form.tag_name,
                    animal_type |-> IF Missing(form.animal_type) THEN "buffalo"
                                    ELSE form.animal_type.v,
                    purchase_date |-> IF IsDate(form.purchase_date)
                                      THEN Some(form.purchase_date.v)
                                      ELSE buffalo.purchase_date,
                    purchase_price |-> OptInt(form.purchase_price),
                    status |-> StatusOf(form.status)]}
             /\ response' = Redirect("buffalo_list",
                    DateFlash(form.purchase_date, "Invalid purchase date")
                    \o <<Flash("Buffalo updated successfully!", "success")>>)
             /\ UNCHANGED <<workers, salary_payments, expenses, milk_records,
                            today, inflight, parked, session, users, now, sms>>

\* POST /buffaloes/<buffalo_id>/delete.  Deleting an animal that milk records
\* refer to makes the ORM set their buffalo_id to NULL, which the NOT NULL
\* column refuses at commit.
BuffaloDelete(buffalo_id) ==
    IF ~AdminPasses THEN Answer(AdminDenied)
    ELSE IF ~Exists(buffaloes, buffalo_id) THEN Answer(NotFound)
    ELSE IF \E r \in milk_records : r.buffalo_id = buffalo_id
    THEN Answer(ServerError)
    ELSE /\ buffaloes' = buffaloes \ {Get(buffaloes, buffalo_id)}
         /\ response' = Redirect("buffalo_list",
                <<Flash("Buffalo record deleted.", "success")>>)
         /\ UNCHANGED <<workers, salary_payments, expenses, milk_records,
                        today, inflight, parked, session, users, now, sms>>

\* GET /buffaloes/<buffalo_id>
BuffaloDetail(buffalo_id) ==
    IF ~LoginPasses THEN Answer(LoginDenied)
    ELSE IF ~Exists(buffaloes, buffalo_id) THEN Answer(NotFound)
    ELSE Answer([kind |-> "buffalo_detail", buffalo |-> Get(buffaloes, buffalo_id)])

\* GET /workers/<worker_id>
WorkerDetail(worker_id) ==
    IF ~LoginPasses THEN Answer(LoginDenied)
    ELSE IF ~Exists(workers, worker_id) THEN Answer(NotFound)
    ELSE Answer([kind |-> "worker_detail", worker |-> Get(workers, worker_id)])

(* The milk summary of one animal *)

\* func.min(MilkRecord.date) and func.max(MilkRecord.date): NULL over no row
SqlMinDate(S) ==
    IF S = {} THEN None
    ELSE Some(CHOOSE d \in {r.date : r \in S} : \A r \in S : DateLE(d, r.date))

SqlMaxDate(S) ==
    IF S = {} THEN None
    ELSE Some(CHOOSE d \in {r.date : r \in S} : \A r \in S : DateLE(r.date, d))

\* mutant: the days are counted per record, not per distinct date
SqlCountDistinctDates_PerRecord(S) == Cardinality(S)

\* func.count(func.distinct(MilkRecord.date))
SqlCountDistinctDates(S) == Cardinality({r.date : r \in S})

\* a / b of Python, kept exact as the pair num, den
TrueDiv(a, b) == [num |-> a, den |-> b]

\* avg_per_day
AvgPerDay(total_litres, days_count) ==
    IF days_count # 0 /\ days_count > 0 THEN TrueDiv(total_litres, days_count)
    ELSE TrueDiv(0, 1)

\* GET /buffaloes/<buffalo_id>/milk-summary
BuffaloMilkSummary(buffalo_id) ==
    IF ~LoginPasses THEN Answer(LoginDenied)
    ELSE IF ~Exists(buffaloes, buffalo_id) THEN Answer(NotFound)
    ELSE LET S == {r \in milk_records : r.buffalo_id = buffalo_id}
             total_litres == Coalesce(SqlSumLitres(S), 0)
             days_count == SqlCountDistinctDates(S)
         IN  Answer([kind |-> "milk_summary",
                     buffalo |-> buffalo_id,
                     first_date |-> SqlMinDate(S),
                     last_date |-> SqlMaxDate(S),
                     total_litres |-> total_litres,
                     days_count |-> days_count,
                     avg_per_day |-> AvgPerDay(total_litres, days_count),
                     records |-> SeqById(S)])

-----------------------------------------------------------------------------
(* Users: registration, login, password reset by OTP, account deletion *)

MaxUsers == 2
MaxSms == 2
MaxNow == 12

\* timedelta(minutes=10): the life of an OTP
OtpMinutes == 10

\* the least length validate_password accepts
MinPasswordLength == 8

\* a text as typed: v in lower case, `upper` when it is typed in upper case,
\* `pad` when blanks surround it
RawText(s, pad, upper) == [t |-> "text", v |-> s, pad |-> pad, upper |-> upper]

\* a text of blanks only
Blank == [t |-> "blank"]

\* str.strip()
Strip(f) ==
    IF f.t = "blank" THEN Empty
    ELSE IF f.t = "text" THEN [f EXCEPT !.pad = FALSE]
    ELSE f

\* str.lower()
Lower(f) == IF f.t = "text" THEN [f EXCEPT !.upper = FALSE] ELSE f

\* a password as typed
Password(s, len, has_letter, has_digit) ==
    [t |-> "password", v |-> s, len |-> len,
     has_letter |-> has_letter, has_digit |-> has_digit]

\* validate_password: <<ok, message>>
ValidatePassword(password) ==
    IF password.len < MinPasswordLength
    THEN <<FALSE, "Password must be at least 8 characters long.">>
    ELSE IF ~password.has_letter \/ ~password.has_digit
    THEN <<FALSE, "Password must contain at least one letter and one number.">>
    ELSE <<TRUE, "">>

\* generate_password_hash and check_password_hash
GeneratePasswordHash(password) == [hash_of |-> password]

CheckPasswordHash(password_hash, password) == password_hash.hash_of = password

\* the six-digit codes generate_otp_code can return (two of them)
OtpCodes == {RawText("111111", FALSE, FALSE), RawText("222222", FALSE, FALSE)}

GoodPassword == Password("pass1234", 8, TRUE, TRUE)

OtherPassword == Password("word5678", 8, TRUE, TRUE)

\* the account of the first registration
AdminUser ==
    [id |-> 1,
     username |-> RawText("admin", FALSE, FALSE),
     email |-> RawText("admin@x", FALSE, FALSE),
     mobile |-> RawText("100", FALSE, FALSE),
     password_hash |-> GeneratePasswordHash(GoodPassword),
     role |-> "admin",
     reset_token |-> None,
     reset_expires_at |-> None]

\* session.get("user_id") is set
LoggedIn == session.user_id # None

\* mutant: the uniqueness queries find nothing
Taken_Never(column, value) == FALSE

\* User.query.filter_by(column=value).first() finds a user
Taken(column, value) == \E u \in users : u[column] = value

\* mutant: every registration gives the role 'user'
RoleOfNewUser_AlwaysUser == "user"

\* the role register gives: the first user becomes the admin
RoleOfNewUser ==
    LET is_first_user == Cardinality(users) = 0
    IN  IF is_first_user THEN "admin" ELSE "user"

\* POST /register
Register(form) ==
    IF LoggedIn THEN Answer(Redirect("dashboard", << >>))
    ELSE LET username == Strip(form.username)
             email == Lower(Strip(form.email))
             mobile == Strip(form.mobile)
             password == form.password
             confirm_password == form.confirm_password
         IN  IF Missing(username) \/ Missing(email) \/ Missing(mobile)
                \/ Missing(password)
             THEN Answer(Redirect("register",
                    <<Flash("Username, email, mobile and password are required.",
                            "error")>>))
             ELSE IF password # confirm_password
             THEN Answer(Redirect("register",
                    <<Flash("Passwords do not match.", "error")>>))
             ELSE IF ~ValidatePassword(password)[1]
             THEN Answer(Redirect("register",
                    <<Flash(ValidatePassword(password)[2], "error")>>))
             ELSE IF Taken("username", username)
             THEN Answer(Redirect("register",
                    <<Flash("Username already taken.", "error")>>))
             ELSE IF Taken("email", email)
             THEN Answer(Redirect("register",
                    <<Flash("Email already registered.", "error")>>))
             ELSE IF Taken("mobile", mobile)
             THEN Answer(Redirect("register",
                    <<Flash("Mobile number already registered.", "error")>>))
             ELSE LET role == RoleOfNewUser
                  IN  /\ NextId(users) <= MaxUsers
                      /\ users' = users \cup
                           {[id |-> NextId(users),
                             username |-> username,
                             email |-> email,
                             mobile |-> mobile,
                             password_hash |-> GeneratePasswordHash(password),
                             role |-> role,
                             reset_token |-> None,
                             reset_expires_at |-> None]}
                      /\ response' = Redirect("login",
                             <<Flash("Account created successfully. Please login.",
                                     "success")>>)
                      /\ UNCHANGED <<workers, salary_payments, expenses, buffaloes,
                                     milk_records, today, inflight,
                                     parked, session, now, sms>>

\* the users the login query can return first
LoginMatches(username_or_email) ==
    {u \in users : u.username = username_or_email \/ u.email = username_or_email}

\* mutant: a login admits accounts of any role
LoginAs_AnyRole(form, role, page, wrong_role, welcome) ==
    LET username_or_email == Strip(form.username)
        found == LoginMatches(username_or_email)
        Denied == Answer(Redirect(page,
                    <<Flash("Invalid username/email or password.", "error")>>))
    IN  IF found = {} THEN Denied
        ELSE \E user \in found :
                IF ~CheckPasswordHash(user.password_hash, form.password) THEN Denied
                ELSE /\ session' = [user_id |-> Some(user.id), role |-> user.role]
                     /\ response' = Redirect("next_url", <<Flash(welcome, "success")>>)
                     /\ UNCHANGED <<workers, salary_payments, expenses, buffaloes,
                                    milk_records, today, inflight,
                                    parked, users, now, sms>>

\* the POST of login and of admin_login, for the role each of them admits
LoginAs(form, role, page, wrong_role, welcome) ==
    LET username_or_email == Strip(form.username)
        found == LoginMatches(username_or_email)
        Denied == Answer(Redirect(page,
                    <<Flash("Invalid username/email or password.", "error")>>))
    IN  IF found = {} THEN Denied
        ELSE \E user \in found :
                IF ~CheckPasswordHash(user.password_hash, form.password) THEN Denied
                ELSE IF user.role # role
                THEN Answer(Redirect(page, <<Flash(wrong_role, "error")>>))
                ELSE /\ session' = [user_id |-> Some(user.id), role |-> user.role]
                     /\ response' = Redirect("next_url", <<Flash(welcome, "success")>>)
                     /\ UNCHANGED <<workers, salary_payments, expenses, buffaloes,
                                    milk_records, today, inflight,
                                    parked, users, now, sms>>

\* POST /login
Login(form) ==
    IF LoggedIn THEN Answer(Redirect("dashboard", << >>))
    ELSE LoginAs(form, "user", "login",
                 "This is an admin account. Please use Admin Login.",
                 "Logged in successfully as user.")

\* POST /admin/login
AdminLogin(form) ==
    IF LoggedIn /\ session.role = "admin" THEN Answer(Redirect("dashboard", << >>))
    ELSE LoginAs(form, "admin", "admin_login",
                 "This is not an admin account.",
                 "Logged in successfully as admin.")

\* GET /logout
Logout ==
    IF ~LoginPasses THEN Answer(LoginDenied)
    ELSE /\ session' = NoSession
         /\ response' = Redirect("login", <<Flash("Logged out.", "success")>>)
         /\ UNCHANGED <<workers, salary_payments, expenses, buffaloes,
                        milk_records, today, inflight, parked, users, now, sms>>

\* POST /forgot-password
ForgotPassword(form) ==
    LET mobile == Strip(form.mobile)
        sent == Flash("If this mobile is registered, an OTP has been sent.", "info")
    IN  IF Missing(mobile)
        THEN Answer(Redirect("forgot_password",
                <<Flash("Please enter your registered mobile number.", "error")>>))
        ELSE IF ~\E u \in users : u.mobile = mobile
        THEN Answer(Redirect("forgot_password", <<sent>>))
        ELSE LET user == CHOOSE u \in users : u.mobile = mobile
             IN  \E otp \in OtpCodes :
                    /\ Len(sms) < MaxSms
                    /\ users' = (users \ {user}) \cup
                         {[user EXCEPT !.reset_token = Some(otp),
                                       !.reset_expires_at = Some(now + OtpMinutes)]}
                    /\ sms' = Append(sms, [mobile |-> user.mobile, otp |-> otp,
                                            sent_at |-> now])
                    /\ response' = Redirect("reset_password_otp", <<sent>>)
                    /\ UNCHANGED <<workers, salary_payments, expenses, buffaloes,
                                   milk_records, today, inflight,
                                   parked, session, now>>

\* mutant: an OTP never expires
OtpExpired_Never(user) == FALSE

\* not user.reset_expires_at or user.reset_expires_at < datetime.utcnow()
OtpExpired(user) ==
    user.reset_expires_at = None \/ user.reset_expires_at[1] < now

\* mutant: a reset that succeeds leaves the OTP in place
ResetPasswordOtp_KeepsOtp(form) ==
    LET mobile == Strip(form.mobile)
        otp == Strip(form.otp)
    IN  IF ~\E u \in users : u.mobile = mobile
        THEN Answer(Redirect("reset_password_otp",
                <<Flash("Invalid mobile or OTP.", "error")>>))
        ELSE LET user == CHOOSE u \in users : u.mobile = mobile
             IN  IF user.reset_token = None \/ user.reset_token # Some(otp)
                 THEN Answer(Redirect("reset_password_otp",
                        <<Flash("Invalid OTP.", "error")>>))
                 ELSE IF OtpExpired(user)
                 THEN Answer(Redirect("forgot_password",
                        <<Flash("OTP expired. Please request a new one.", "error")>>))
                 ELSE IF form.password # form.confirm_password
                 THEN Answer(Redirect("reset_password_otp",
                        <<Flash("Passwords do not match.", "error")>>))
                 ELSE /\ users' = (users \ {user}) \cup
                           {[user EXCEPT
                               !.password_hash =
                                   GeneratePasswordHash(form.password)]}
                      /\ response' = Redirect("login",
                             <<Flash("Password updated successfully. Please login.",
                                     "success")>>)
                      /\ UNCHANGED <<workers, salary_payments, expenses, buffaloes,
                                     milk_records, today, inflight,
                                     parked, session, now, sms>>

\* POST /reset-password-otp
ResetPasswordOtp(form) ==
    LET mobile == Strip(form.mobile)
        otp == Strip(form.otp)
        password == form.password
        confirm_password == form.confirm_password
    IN  IF Missing(mobile) \/ Missing(otp) \/ Missing(password)
        THEN Answer(Redirect("reset_password_otp",
                <<Flash("Mobile, OTP and new password are required.", "error")>>))
        ELSE IF ~\E u \in users : u.mobile = mobile
        THEN Answer(Redirect("reset_password_otp",
                <<Flash("Invalid mobile or OTP.", "error")>>))
        ELSE LET user == CHOOSE u \in users : u.mobile = mobile
             IN  IF user.reset_token = None \/ user.reset_token # Some(otp)
                 THEN Answer(Redirect("reset_password_otp",
                        <<Flash("Invalid OTP.", "error")>>))
                 ELSE IF OtpExpired(user)
                 THEN Answer(Redirect("forgot_password",
                        <<Flash("OTP expired. Please request a new one.", "error")>>))
                 ELSE IF password # confirm_password
                 THEN Answer(Redirect("reset_password_otp",
                        <<Flash("Passwords do not match.", "error")>>))
                 ELSE IF ~ValidatePassword(password)[1]
                 THEN Answer(Redirect("reset_password_otp",
                        <<Flash(ValidatePassword(password)[2], "error")>>))
                 ELSE /\ users' = (users \ {user}) \cup
                           {[user EXCEPT
                               !.password_hash = GeneratePasswordHash(password),
                               !.reset_token = None,
                               !.reset_expires_at = None]}
                      /\ response' = Redirect("login",
                             <<Flash("Password updated successfully. Please login.",
                                     "success")>>)
                      /\ UNCHANGED <<workers, salary_payments, expenses, buffaloes,
                                     milk_records, today, inflight,
                                     parked, session, now, sms>>

\* POST /account/delete
AccountDelete(form) ==
    IF ~LoginPasses THEN Answer(LoginDenied)
    ELSE IF ~Exists(users, session.user_id[1]) THEN Answer(NotFound)
    ELSE LET user == Get(users, session.user_id[1])
         IN  IF user.role = "admin"
             THEN Answer(Redirect("dashboard",
                    <<Flash("Admin account cannot be deleted. Use admin panel to manage users.",
                            "error")>>))
             ELSE IF ~CheckPasswordHash(user.password_hash, form.password)
             THEN Answer(Redirect("account_delete",
                    <<Flash("Incorrect password. Account not deleted.", "error")>>))
             ELSE /\ users' = users \ {user}
                  /\ session' = NoSession
                  /\ response' = Redirect("login",
                         <<Flash("Your account has been deleted.", "success")>>)
                  /\ UNCHANGED <<workers, salary_payments, expenses, buffaloes,
                                 milk_records, today, inflight,
                                 parked, now, sms>>

\* mutant: the admin page deletes accounts of any role
AdminUserDelete_AnyRole(user_id) ==
    IF ~AdminPasses THEN Answer(AdminDenied)
    ELSE IF ~Exists(users, user_id) THEN Answer(NotFound)
    ELSE /\ users' = users \ {Get(users, user_id)}
         /\ response' = Redirect("admin_users",
                <<Flash("User deleted successfully.", "success")>>)
         /\ UNCHANGED <<workers, salary_payments, expenses, buffaloes,
                        milk_records, today, inflight, parked, session, now,
                        sms>>

\* POST /admin/users/<user_id>/delete
AdminUserDelete(user_id) ==
    IF ~AdminPasses THEN Answer(AdminDenied)
    ELSE IF ~Exists(users, user_id) THEN Answer(NotFound)
    ELSE LET user == Get(users, user_id)
         IN  IF user.role = "admin"
             THEN Answer(Redirect("admin_users",
                    <<Flash("Admin accounts cannot be deleted from this page.",
                            "error")>>))
             ELSE /\ users' = users \ {user}
                  /\ response' = Redirect("admin_users",
                         <<Flash("User deleted successfully.", "success")>>)
                  /\ UNCHANGED <<workers, salary_payments, expenses, buffaloes,
                                 milk_records, today, inflight,
                                 parked, session, now, sms>>

\* time passes: datetime.utcnow() grows between requests
Tick(minutes) ==
    /\ now + minutes <= MaxNow
    /\ now' = now + minutes
    /\ UNCHANGED <<workers, salary_payments, expenses, buffaloes, milk_records,
                   today, inflight, parked, session, users, sms, response>>

(* Backup and restore *)

\* GET /backup/download: the data file as it is
BackupDownload ==
    IF ~AdminPasses THEN Answer(AdminDenied)
    ELSE Answer([kind |-> "backup_file", content |-> db])

NoFile == [filename |-> "", ext |-> "", content |-> << >>]

\* POST /backup: the data file is replaced by the uploaded one, unless
\* os.replace fails
BackupRestore(file) ==
    IF ~AdminPasses THEN Answer(AdminDenied)
    ELSE IF file.filename = ""
    THEN Answer(Redirect("backup_page",
            <<Flash("Please choose a .db or .sqlite file to upload.", "error")>>))
    ELSE IF file.ext \notin {".db", ".sqlite"}
    THEN Answer(Redirect("backup_page",
            <<Flash("Invalid file type. Upload a .db or .sqlite file.", "error")>>))
    ELSE \/ Answer(Redirect("backup_page", <<Flash("Restore failed", "error")>>))
         \/ /\ users' = file.content[1]
            /\ buffaloes' = file.content[2]
            /\ workers' = file.content[3]
            /\ salary_payments' = file.content[4]
            /\ expenses' = file.content[5]
            /\ milk_records' = file.content[6]
            /\ response' = Redirect("dashboard",
                   <<Flash("Database restored successfully. Please reload pages.",
                           "success")>>)
            /\ UNCHANGED <<today, inflight, parked, session, now, sms>>

-----------------------------------------------------------------------------
(* The salary specification: workers and their payments are added, edited  *)
(* and deleted; the dashboard and the salary report are read in between.   *)

\* the month before a's
PrevMonthOf(a) == MonthOf(PrevDay(FirstDay(a)))

WorkerForms ==
    [name : {Text("A")}, mobile : {Text("9")}, joining_date : {Empty},
     salary_per_month : {Empty, Num(0), Num(10)},
     status : {Empty, Text("left")}]

SalaryForms ==
    [worker_id : {Num(w) : w \in 1..MaxWorkers},
     month : {MonthOf(today), PrevMonthOf(today)},
     amount : {Num(5), Num(10), Num(-5)},
     date_paid : {DateStr(today)}]

ReportMonths == {Empty, PrevMonthOf(today)}

InitSalary ==
    /\ workers = {}
    /\ salary_payments = {}
    /\ expenses = {}
    /\ buffaloes = {}
    /\ milk_records = {}
    /\ today = Date(2025, 12, 15)
    /\ session = AdminSession
    /\ users = {AdminUser}
    /\ now = 0
    /\ sms = << >>
    /\ inflight = NoRequests
    /\ parked = NoSession
    /\ response = NoResponse

NextSalary ==
    \/ \E form \in WorkerForms : WorkerAdd(form)
    \/ \E id \in 1..MaxWorkers, form \in WorkerForms : WorkerEdit(id, form)
    \/ \E id \in 1..MaxWorkers : WorkerDelete(id)
    \/ \E form \in SalaryForms : SalaryAdd(form)
    \/ \E id \in 1..MaxPayments, form \in SalaryForms : SalaryEdit(id, form)
    \/ \E id \in 1..MaxPayments : SalaryDelete(id)
    \/ Dashboard
    \/ \E month \in ReportMonths : SalaryReport(month)

SpecSalary == InitSalary /\ [][NextSalary]_vars

-----------------------------------------------------------------------------
(* Claims about the salary aggregation *)

\* the amounts paid to worker wid for month key M, summed
PaidIn(wid, M) ==
    SumAmount({p \in salary_payments : p.worker_id = wid /\ p.month = M})

\* the entries of list `rows` that are about worker wid
RowsOf(rows, wid) == {i \in DOMAIN rows : rows[i].worker = wid}

\* C1: the dashboard's due-workers list for the current month key M holds
\* exactly the active workers with a non-null, non-zero salary_per_month and
\* salary_per_month - (sum of their payments of month M) > 0, once each, with
\* expected = salary_per_month, paid = that sum and due = expected - paid,
\* not floored.
C1_DueWorkersExact ==
    response.kind = "dashboard" =>
        LET M == response.month_str
            due == response.due_workers
        IN  /\ M = MonthOf(today)
            /\ response.due_count = Len(due)
            /\ \A w \in workers :
                  LET owed == /\ w.status = "active"
                              /\ w.salary_per_month # None
                              /\ w.salary_per_month[1] # 0
                              /\ w.salary_per_month[1] - PaidIn(w.id, M) > 0
                  IN  Cardinality(RowsOf(due, w.id)) = (IF owed THEN 1 ELSE 0)
            /\ \A i \in DOMAIN due :
                  /\ Exists(workers, due[i].worker)
                  /\ Get(workers, due[i].worker).salary_per_month = Some(due[i].expected)
                  /\ due[i].paid = PaidIn(due[i].worker, M)
                  /\ due[i].due = due[i].expected - due[i].paid

\* C1 witness: a dashboard that lists a partly paid worker and leaves out an
\* active worker with a salary whose payments cover it.
C1_Witness ==
    /\ response.kind = "dashboard"
    /\ \E i \in DOMAIN response.due_workers :
          response.due_workers[i].paid > 0 /\ response.due_workers[i].due > 0
    /\ \E w \in workers :
          /\ w.status = "active" /\ Truthy(w.salary_per_month)
          /\ PaidIn(w.id, MonthOf(today)) >= w.salary_per_month[1]
          /\ RowsOf(response.due_workers, w.id) = {}

\* C2: salary_report for month M has exactly one row per active worker and
\* none for any other worker; the row has expected = salary_per_month (0 when
\* null), paid = the sum of the worker's payments of month M and
\* due = max(expected - paid, 0).
C2_ReportRows ==
    response.kind = "salary_report" =>
        LET M == response.month
            rows == response.rows
        IN  /\ \A w \in workers :
                  Cardinality(RowsOf(rows, w.id)) =
                      (IF w.status = "active" THEN 1 ELSE 0)
            /\ \A i \in DOMAIN rows :
                  /\ Exists(workers, rows[i].worker)
                  /\ LET w == Get(workers, rows[i].worker)
                         expected == IF w.salary_per_month = None THEN 0
                                     ELSE w.salary_per_month[1]
                         paid == PaidIn(w.id, M)
                     IN  /\ rows[i].expected = expected
                         /\ rows[i].paid = paid
                         /\ rows[i].due = (IF expected - paid > 0
                                           THEN expected - paid ELSE 0)

\* C2 witness: a report of a month other than the current one, while a
\* worker who has left is stored, with a row paid beyond a positive expected
\* salary by two payments.
C2_Witness ==
    /\ response.kind = "salary_report"
    /\ response.month # MonthOf(today)
    /\ \E w \in workers : w.status = "left"
    /\ \E i \in DOMAIN response.rows :
          /\ response.rows[i].expected > 0
          /\ response.rows[i].paid > response.rows[i].expected
          /\ response.rows[i].due = 0

\* the five conditions of the status classification, as the spec lists them
StatusConditions(salary, paid, expected) ==
    <<salary = None,
      salary # None /\ salary[1] = 0,
      paid = 0,
      0 < paid /\ paid < expected,
      paid >= expected>>

StatusNames ==
    <<"Salary not set", "Salary set as 0", "Not Paid", "Partially Paid", "Paid">>

\* C3 as stated: for every row exactly one of the five conditions holds and
\* the row has the status of that condition.
C3_AsStated ==
    response.kind = "salary_report" =>
        \A i \in DOMAIN response.rows :
            LET row == response.rows[i]
                w == Get(workers, row.worker)
                c == StatusConditions(w.salary_per_month, row.paid, row.expected)
            IN  /\ Cardinality({k \in 1..5 : c[k]}) = 1
                /\ \A k \in 1..5 : c[k] => row.status = StatusNames[k]

\* C3 amended: the conditions are taken in the listed order and the first
\* that holds gives the status, the fourth being paid < expected for any
\* paid other than 0: no salary set -> 'Salary not set'; else salary = 0 ->
\* 'Salary set as 0'; else paid = 0 -> 'Not Paid'; else paid < expected ->
\* 'Partially Paid'; else (paid >= expected) 'Paid'.  With that precedence
\* exactly one case applies to every row.
C3_StatusByPrecedence ==
    response.kind = "salary_report" =>
        \A i \in DOMAIN response.rows :
            LET row == response.rows[i]
                salary == Get(workers, row.worker).salary_per_month
                set == salary # None /\ salary[1] # 0
                case == <<salary = None,
                          salary # None /\ salary[1] = 0,
                          set /\ row.paid = 0,
                          set /\ row.paid # 0 /\ row.paid < row.expected,
                          set /\ row.paid # 0 /\ row.paid >= row.expected>>
            IN  /\ Cardinality({k \in 1..5 : case[k]}) = 1
                /\ \A k \in 1..5 : case[k] => row.status = StatusNames[k]

\* C3 witness: one report showing a worker without a salary who was paid
\* and a worker with a salary and a negative paid sum.
C3_Witness ==
    /\ response.kind = "salary_report"
    /\ \E i \in DOMAIN response.rows :
          response.rows[i].status = "Salary not set" /\ response.rows[i].paid > 0
    /\ \E i \in DOMAIN response.rows :
          response.rows[i].status = "Partially Paid" /\ response.rows[i].paid < 0

-----------------------------------------------------------------------------
(* The milk specifications.  Two animals are stored; milk records are      *)
(* added, edited and deleted and the dashboard is read in between.  The    *)
(* specifications differ in the forms the operator submits.                *)

\* a stored animal, as buffalo_add saves it
BuffaloRow(id) ==
    [id |-> id, tag_name |-> Text("B"), animal_type |-> "buffalo",
     purchase_date |-> None, purchase_price |-> None, status |-> "active"]

BuffaloIds == {1, 2}

MilkForm(b, d, litres) ==
    [buffalo_id |-> Num(b), date |-> DateStr(d),
     morning_litres |-> litres[1], evening_litres |-> litres[2]]

InitMilk(t) ==
    /\ workers = {}
    /\ salary_payments = {}
    /\ expenses = {}
    /\ buffaloes = {BuffaloRow(b) : b \in BuffaloIds}
    /\ milk_records = {}
    /\ today = t
    /\ session = AdminSession
    /\ users = {AdminUser}
    /\ now = 0
    /\ sms = << >>
    /\ inflight = NoRequests
    /\ parked = NoSession
    /\ response = NoResponse

\* yields around the threshold: 10.0, 6.9 and 7.0 litres
YieldForms ==
    {MilkForm(b, d, l) :
        b \in BuffaloIds,
        d \in {PrevDay(today), today},
        l \in {<<Num(50), Num(50)>>, <<Num(19), Num(50)>>, <<Num(20), Num(50)>>}}

InitLowYield == InitMilk(Date(2026, 1, 1))

NextLowYield ==
    \/ \E form \in YieldForms : MilkRecordAdd(form)
    \/ \E id \in 1..MaxMilk, form \in YieldForms : MilkRecordEdit(id, form)
    \/ \E id \in 1..MaxMilk : MilkRecordDelete(id)
    \/ Dashboard

SpecLowYield == InitLowYield /\ [][NextLowYield]_vars

\* records of animal 1 on both sides of both ends of the lookback window,
\* records of animal 2 yesterday and today
WindowForms ==
    {MilkForm(1, d, l) :
        d \in {MinusDays(today, 8), MinusDays(today, 7), PrevDay(today), today},
        l \in {<<Empty, Empty>>, <<Num(0), Num(50)>>}}
    \cup {MilkForm(2, d, l) :
        d \in {PrevDay(today), today},
        l \in {<<Empty, Empty>>, <<Num(0), Num(50)>>}}

InitWindow == InitMilk(Date(2026, 3, 5))

NextWindow ==
    \/ \E form \in WindowForms : MilkRecordAdd(form)
    \/ \E id \in 1..MaxMilk, form \in WindowForms : MilkRecordEdit(id, form)
    \/ \E id \in 1..MaxMilk : MilkRecordDelete(id)
    \/ Dashboard

SpecWindow == InitWindow /\ [][NextWindow]_vars

-----------------------------------------------------------------------------
(* Claims about the low-yield detector *)

\* the litres of a record, an absent reading counting 0
Litres(r) ==
    (IF r.morning_litres = None THEN 0 ELSE r.morning_litres[1])
    + (IF r.evening_litres = None THEN 0 ELSE r.evening_litres[1])

RECURSIVE LitresSum(_)
LitresSum(S) ==
    IF S = {} THEN 0
    ELSE LET r == CHOOSE r \in S : TRUE IN Litres(r) + LitresSum(S \ {r})

\* the records of animal b dated today - 7 .. today - 1
HistoryOf(b) ==
    {r \in milk_records :
        r.buffalo_id = b /\ r.date \in {MinusDays(today, k) : k \in 1..7}}

\* the records of animal b dated today
TodayOf(b) == {r \in milk_records : r.buffalo_id = b /\ r.date = today}

\* the alert entries about animal b
AlertsOf(b) ==
    {i \in DOMAIN response.low_milk_alerts :
        response.low_milk_alerts[i].buffalo = Some(b)}

\* C4: a record of today of an animal that has an average over the lookback
\* window is flagged if and only if its total is strictly below 0.7 times
\* that average (so 6.9 against 10.0 is flagged and 7.0 is not): for every
\* total v, the alerts of the animal with today_total v are as many as its
\* records of today with total v and 10 * v * n < 7 * sum.
C4_FlaggedIffBelow ==
    response.kind = "dashboard" =>
        \A b \in BuffaloIds :
            HistoryOf(b) # {} =>
                LET sum == LitresSum(HistoryOf(b))
                    n == Cardinality(HistoryOf(b))
                IN  \A v \in {Litres(r) : r \in TodayOf(b)}
                             \cup {response.low_milk_alerts[i].today_total :
                                      i \in AlertsOf(b)} :
                        Cardinality({i \in AlertsOf(b) :
                            response.low_milk_alerts[i].today_total = v})
                        = Cardinality({r \in TodayOf(b) :
                            Litres(r) = v /\ 10 * v * n < 7 * sum})

\* C4 witness: an animal averaging exactly 10.0 litres with a record of 6.9
\* litres today that is flagged and one of 7.0 litres that is not.
C4_Witness ==
    /\ response.kind = "dashboard"
    /\ \E b \in BuffaloIds :
          /\ HistoryOf(b) # {}
          /\ LitresSum(HistoryOf(b)) = 100 * Cardinality(HistoryOf(b))
          /\ \E r \in TodayOf(b) : Litres(r) = 70
          /\ \E i \in AlertsOf(b) : response.low_milk_alerts[i].today_total = 69
          /\ \A i \in AlertsOf(b) : response.low_milk_alerts[i].today_total # 70

\* C5: the average the detector uses for an animal is the mean of the total
\* litres over exactly that animal's records dated today - 7 .. today - 1:
\* avg_by_buffalo has a key for an animal iff it has such a record, the value
\* is (their sum, their number), and every alert shows that mean.
C5_AverageOverWindow ==
    /\ \A b \in BuffaloIds :
          /\ b \in DOMAIN AvgByBuffalo(today) <=> HistoryOf(b) # {}
          /\ HistoryOf(b) # {} =>
                AvgByBuffalo(today)[b] =
                    [sum |-> LitresSum(HistoryOf(b)), n |-> Cardinality(HistoryOf(b))]
    /\ response.kind = "dashboard" =>
          \A i \in DOMAIN response.low_milk_alerts :
              LET e == response.low_milk_alerts[i]
              IN  /\ e.buffalo # None
                  /\ e.avg_total = [sum |-> LitresSum(HistoryOf(e.buffalo[1])),
                                    n |-> Cardinality(HistoryOf(e.buffalo[1]))]

\* C5 witness: an alert whose average comes from a record dated today - 7
\* alone, while the animal also has a record with milk dated today - 8.
C5_Witness ==
    /\ response.kind = "dashboard"
    /\ \E b \in BuffaloIds :
          /\ AlertsOf(b) # {}
          /\ \A r \in HistoryOf(b) : r.date = MinusDays(today, 7)
          /\ \E r \in milk_records :
                r.buffalo_id = b /\ r.date = MinusDays(today, 8) /\ Litres(r) > 0

\* C6: an animal with no milk record dated before today is never in the
\* low-milk alert list: every alert is about an animal with such a record.
C6_NoHistoryNoAlert ==
    response.kind = "dashboard" =>
        \A i \in DOMAIN response.low_milk_alerts :
            LET e == response.low_milk_alerts[i]
            IN  /\ e.buffalo # None
                /\ \E r \in milk_records :
                      r.buffalo_id = e.buffalo[1] /\ DateLT(r.date, today)

\* C6 witness: a dashboard with an alert about one animal while the other
\* animal has a record of today without readings, no earlier record and no
\* alert.
C6_Witness ==
    /\ response.kind = "dashboard"
    /\ response.low_milk_alerts # << >>
    /\ \E b \in BuffaloIds :
          /\ \E r \in TodayOf(b) : r.morning_litres = None /\ r.evening_litres = None
          /\ \A r \in milk_records : r.buffalo_id = b => ~DateLT(r.date, today)
          /\ AlertsOf(b) = {}

\* C7 as stated: the alert list has at most one entry per animal, and the
\* entry's today_total is the sum of the total litres over all of the
\* animal's records dated today.
C7_AsStated ==
    response.kind = "dashboard" =>
        \A b \in BuffaloIds :
            /\ Cardinality(AlertsOf(b)) <= 1
            /\ \A i \in AlertsOf(b) :
                  response.low_milk_alerts[i].today_total = LitresSum(TodayOf(b))

-----------------------------------------------------------------------------
(* The totals specification: one animal's records with every combination   *)
(* of absent and present readings, today, yesterday and last month.        *)

TotalsForms ==
    {MilkForm(1, d, l) :
        d \in {today, PrevDay(today), PrevDay(FirstDay(today))},
        l \in {<<Empty, Empty>>, <<Empty, Num(50)>>,
               <<Num(20), Empty>>, <<Num(0), Num(30)>>}}

InitTotals == InitMilk(Date(2025, 12, 15))

NextTotals ==
    \/ \E form \in TotalsForms : MilkRecordAdd(form)
    \/ \E id \in 1..MaxMilk, form \in TotalsForms : MilkRecordEdit(id, form)
    \/ \E id \in 1..MaxMilk : MilkRecordDelete(id)
    \/ Dashboard
    \/ \E date_arg \in {Empty, DateStr(today)} : MilkRecordListCsv(date_arg, Empty)

SpecTotals == InitTotals /\ [][NextTotals]_vars

\* C9: the total litres of a record is morning + evening with an absent
\* reading counted as 0 (absent and 5.0 give 5.0, both absent give 0), and
\* the total_litres property, the SQL expression of the dashboard's sums,
\* the alert loop and the export all give that value: so do the dashboard's
\* totals for today and the month, every alert and every exported row.
C9_TotalLitres ==
    /\ \A r \in milk_records :
          /\ TotalLitres(r) = Litres(r)
          /\ SqlTotal(r) = Litres(r)
          /\ LoopTotal(r) = Litres(r)
          /\ ExportTotal(r) = Litres(r)
          /\ r.morning_litres = None /\ r.evening_litres = Some(50) => TotalLitres(r) = 50
          /\ r.morning_litres = None /\ r.evening_litres = None => TotalLitres(r) = 0
    /\ response.kind = "dashboard" =>
          /\ response.today_milk_total =
                LitresSum({r \in milk_records : r.date = today})
          /\ response.month_milk_total =
                LitresSum({r \in milk_records :
                              r.date.y = today.y /\ r.date.m = today.m})
          /\ \A i \in DOMAIN response.low_milk_alerts :
                \E r \in milk_records :
                    /\ r.date = today
                    /\ Some(r.buffalo_id) = response.low_milk_alerts[i].buffalo
                    /\ response.low_milk_alerts[i].today_total = Litres(r)
    /\ response.kind = "milk_csv" =>
          \A i \in DOMAIN response.rows :
              response.rows[i].total = Litres(Get(milk_records, response.rows[i].id))

\* C9 witness: a dashboard over a record of today with no morning reading
\* and 5.0 litres in the evening and a record of today with no reading at
\* all, 5.0 litres in total, with an alert for the latter.
C9_Witness ==
    /\ response.kind = "dashboard"
    /\ \E r \in milk_records :
          r.date = today /\ r.morning_litres = None /\ r.evening_litres = Some(50)
    /\ \E r \in milk_records :
          r.date = today /\ r.morning_litres = None /\ r.evening_litres = None
    /\ response.today_milk_total = 50
    /\ \E i \in DOMAIN response.low_milk_alerts :
          response.low_milk_alerts[i].today_total = 0

-----------------------------------------------------------------------------
(* The month specification: the clock shows one of several days, among     *)
(* them the ends of a year, and expenses and milk records are dated on     *)
(* both sides of both ends of the clock's month.                           *)

MonthTodays == {Date(2025, 12, 15), Date(2026, 1, 1), Date(2026, 2, 28)}

\* the last day before, the first and last day of, and the first day after
\* the month of the clock
MonthEdgeDates ==
    {PrevDay(FirstDay(today)), FirstDay(today),
     PrevDay(NextMonthFirst(FirstDay(today))), NextMonthFirst(FirstDay(today))}

MonthExpenseForms ==
    [date : {DateStr(d) : d \in MonthEdgeDates}, category : {Text("Feed")},
     amount : {Num(3)}]

MonthMilkForms ==
    {MilkForm(1, d, <<Num(20), Empty>>) :
        d \in {PrevDay(NextMonthFirst(FirstDay(today))), NextMonthFirst(FirstDay(today))}}

InitMonth ==
    /\ workers = {}
    /\ salary_payments = {}
    /\ expenses = {}
    /\ buffaloes = {BuffaloRow(b) : b \in BuffaloIds}
    /\ milk_records = {}
    /\ today \in MonthTodays
    /\ session = AdminSession
    /\ users = {AdminUser}
    /\ now = 0
    /\ sms = << >>
    /\ inflight = NoRequests
    /\ parked = NoSession
    /\ response = NoResponse

NextMonth ==
    \/ \E form \in MonthExpenseForms : ExpenseAdd(form)
    \/ \E id \in 1..MaxExpenses, form \in MonthExpenseForms : ExpenseEdit(id, form)
    \/ \E id \in 1..MaxExpenses : ExpenseDelete(id)
    \/ \E form \in MonthMilkForms : MilkRecordAdd(form)
    \/ \E id \in 1..MaxMilk, form \in MonthMilkForms : MilkRecordEdit(id, form)
    \/ \E id \in 1..MaxMilk : MilkRecordDelete(id)
    \/ Dashboard

SpecMonth == InitMonth /\ [][NextMonth]_vars

\* the first, second, middle and last days of today's month, of the months
\* next to it and of the ends of the year, in today's year and the years
\* next to it
ProbeDates ==
    {Date(y, m, d) : y \in {today.y - 1, today.y, today.y + 1},
                     m \in {1, 12, today.m,
                            IF today.m = 1 THEN 12 ELSE today.m - 1,
                            IF today.m = 12 THEN 1 ELSE today.m + 1},
                     d \in {1, 2, 15, 28}}
    \cup {Date(y, m, DaysInMonth(y, m)) :
            y \in {today.y - 1, today.y, today.y + 1}, m \in 1..12}

\* C8: for every today, the range of "this month" is [first day of today's
\* month, first day of the following month): it holds exactly the dates of
\* today's year and month, its upper bound in December is January 1 of the
\* next year (2025-12-15 gives [2025-12-01, 2026-01-01)), and the dashboard's
\* expense total and milk month total are the sums over exactly those dates.
C8_ThisMonthRange ==
    LET lo == FirstDay(today)
        hi == NextMonthFirst(FirstDay(today))
    IN  /\ lo = Date(today.y, today.m, 1)
        /\ hi = (IF today.m = 12 THEN Date(today.y + 1, 1, 1)
                 ELSE Date(today.y, today.m + 1, 1))
        /\ \A d \in ProbeDates :
              InRange(d, lo, hi) <=> (d.y = today.y /\ d.m = today.m)
        /\ today = Date(2025, 12, 15) =>
              lo = Date(2025, 12, 1) /\ hi = Date(2026, 1, 1)
        /\ response.kind = "dashboard" =>
              /\ response.month_expense_total =
                    SumAmount({e \in expenses :
                                  e.date.y = today.y /\ e.date.m = today.m})
              /\ response.month_milk_total =
                    LitresSum({r \in milk_records :
                                  r.date.y = today.y /\ r.date.m = today.m})

\* C8 witness: a dashboard of a day in December with an expense and a milk
\* record on December 31 that count and an expense and a milk record on
\* January 1 of the next year that do not.
C8_Witness ==
    /\ response.kind = "dashboard"
    /\ today.m = 12
    /\ \E e \in expenses : e.date = Date(today.y, 12, 31)
    /\ \E e \in expenses : e.date = Date(today.y + 1, 1, 1)
    /\ \E r \in milk_records : r.date = Date(today.y, 12, 31)
    /\ \E r \in milk_records : r.date = Date(today.y + 1, 1, 1)
    /\ response.month_expense_total = 3
    /\ response.month_milk_total = 20

-----------------------------------------------------------------------------
(* The cost specification: salary payments of this and the previous month  *)
(* and expenses of this month, its last day and the next.                  *)

CostSalaryForms ==
    [worker_id : {Num(1)},
     month : {MonthOf(today), PrevMonthOf(today)},
     amount : {Num(5), Num(7)},
     date_paid : {DateStr(today)}]

CostExpenseForms ==
    [date : {DateStr(d) : d \in {today, PrevDay(FirstDay(today)),
                                 NextMonthFirst(FirstDay(today))}},
     category : {Text("Feed")},
     amount : {Num(3), Num(4)}]

InitCost ==
    /\ workers = {}
    /\ salary_payments = {}
    /\ expenses = {}
    /\ buffaloes = {}
    /\ milk_records = {}
    /\ today \in {Date(2025, 12, 15), Date(2026, 1, 31)}
    /\ session = AdminSession
    /\ users = {AdminUser}
    /\ now = 0
    /\ sms = << >>
    /\ inflight = NoRequests
    /\ parked = NoSession
    /\ response = NoResponse

NextCost ==
    \/ \E form \in CostSalaryForms : SalaryAdd(form)
    \/ \E id \in 1..MaxPayments, form \in CostSalaryForms : SalaryEdit(id, form)
    \/ \E id \in 1..MaxPayments : SalaryDelete(id)
    \/ \E form \in CostExpenseForms : ExpenseAdd(form)
    \/ \E id \in 1..MaxExpenses, form \in CostExpenseForms : ExpenseEdit(id, form)
    \/ \E id \in 1..MaxExpenses : ExpenseDelete(id)
    \/ Dashboard

SpecCost == InitCost /\ [][NextCost]_vars

\* C10: on the dashboard month_total_cost = month_salary_total +
\* month_expense_total, month_salary_total being the sum of amount over the
\* payments whose month key is the current one and month_expense_total the
\* sum of amount over the expenses dated in the current calendar month; each
\* of the three is the number 0 when no row matches.
C10_MonthTotalCost ==
    response.kind = "dashboard" =>
        LET paid == {p \in salary_payments : p.month = MonthOf(today)}
            spent == {e \in expenses : e.date.y = today.y /\ e.date.m = today.m}
        IN  /\ response.month_salary_total = SumAmount(paid)
            /\ response.month_expense_total = SumAmount(spent)
            /\ response.month_total_cost =
                  response.month_salary_total + response.month_expense_total
            /\ paid = {} => response.month_salary_total = 0
            /\ spent = {} => response.month_expense_total = 0
            /\ paid = {} /\ spent = {} => response.month_total_cost = 0

\* C10 witness: a dashboard whose cost adds two payments of the month and
\* an expense of the month while an expense of another month is stored.
C10_Witness ==
    /\ response.kind = "dashboard"
    /\ response.month_salary_total = 12
    /\ response.month_expense_total = 4
    /\ response.month_total_cost = 16
    /\ \E e \in expenses : e.date.m # today.m

\* C10 also holds in the empty store: a dashboard with no payment and no
\* expense of the month shows three zeros.
C10_ZeroWitness ==
    /\ response.kind = "dashboard"
    /\ salary_payments # {} /\ expenses # {}
    /\ response.month_salary_total = 0
    /\ response.month_expense_total = 0
    /\ response.month_total_cost = 0

\* C16 as stated: every stored salary payment has an amount >= 0.
C16_AsStated == \A p \in salary_payments : p.amount >= 0

\* C18 as stated: every salary payment refers to a stored worker and every
\* milk record to a stored animal.
C18_AsStated ==
    /\ \A p \in salary_payments : \E w \in workers : w.id = p.worker_id
    /\ \A r \in milk_records : \E a \in buffaloes : a.id = r.buffalo_id

-----------------------------------------------------------------------------
(* The summary specification: milk records of two animals are added, edited *)
(* and deleted, and the milk summary of either animal is read in between.   *)

SummaryForms ==
    {MilkForm(b, d, l) :
        b \in BuffaloIds,
        d \in {today, PrevDay(today)},
        l \in {<<Empty, Num(30)>>, <<Num(25), Num(25)>>}}

InitSummary == InitMilk(Date(2026, 3, 1))

NextSummary ==
    \/ \E form \in SummaryForms : MilkRecordAdd(form)
    \/ \E id \in 1..MaxMilk, form \in SummaryForms : MilkRecordEdit(id, form)
    \/ \E id \in 1..MaxMilk : MilkRecordDelete(id)
    \/ \E b \in BuffaloIds : BuffaloMilkSummary(b)

SpecSummary == InitSummary /\ [][NextSummary]_vars

\* the stored milk records of animal b
RecordsOf(b) == {r \in milk_records : r.buffalo_id = b}

\* C11: the milk summary of an animal counts the distinct dates of its
\* records, totals the litres of all its records and gives
\* average = total / count when count > 0; with no record it gives count 0,
\* total 0, average 0 and no first or last date, and no division by zero
\* happens.
C11_MilkSummary ==
    response.kind = "milk_summary" =>
        LET S == RecordsOf(response.buffalo)
            count == Cardinality({r.date : r \in S})
        IN  /\ response.days_count = count
            /\ response.total_litres = LitresSum(S)
            /\ response.avg_per_day.den # 0
            /\ count > 0 =>
                 response.avg_per_day.num * count
                    = LitresSum(S) * response.avg_per_day.den
            /\ S = {} =>
                 /\ response.days_count = 0
                 /\ response.total_litres = 0
                 /\ response.avg_per_day.num = 0
                 /\ response.first_date = None
                 /\ response.last_date = None
            /\ S # {} =>
                 /\ \E r \in S : response.first_date = Some(r.date)
                 /\ \E r \in S : response.last_date = Some(r.date)
                 /\ \A r \in S : /\ DateLE(response.first_date[1], r.date)
                                 /\ DateLE(r.date, response.last_date[1])

\* C11 witness: a summary of an animal with three records on two dates.
C11_Witness ==
    /\ response.kind = "milk_summary"
    /\ Cardinality(RecordsOf(response.buffalo)) = 3
    /\ response.days_count = 2
    /\ response.total_litres > 0

\* C11, the empty case: a summary of an animal with no record, while the
\* other animal has some.
C11_ZeroWitness ==
    /\ response.kind = "milk_summary"
    /\ RecordsOf(response.buffalo) = {}
    /\ milk_records # {}
    /\ response.avg_per_day.num = 0

-----------------------------------------------------------------------------
(* The reads specification: a worker, a payment and milk records are added  *)
(* and deleted, and the three aggregations are read in between.             *)

ReadsWorkerForm ==
    [name |-> Text("A"), mobile |-> Text("9"), joining_date |-> Empty,
     salary_per_month |-> Num(10), status |-> Empty]

ReadsPaymentForm ==
    [worker_id |-> Num(1), month |-> MonthOf(today), amount |-> Num(5),
     date_paid |-> DateStr(today)]

ReadsMilkForms ==
    {MilkForm(1, d, <<Num(25), Num(25)>>) : d \in {today, PrevDay(today)}}

InitReads == InitMilk(Date(2026, 3, 1))

NextReads ==
    \/ \E form \in ReadsMilkForms : MilkRecordAdd(form)
    \/ \E id \in 1..MaxMilk : MilkRecordDelete(id)
    \/ WorkerAdd(ReadsWorkerForm)
    \/ SalaryAdd(ReadsPaymentForm)
    \/ \E id \in 1..MaxPayments : SalaryDelete(id)
    \/ \E b \in BuffaloIds : BuffaloMilkSummary(b)
    \/ Dashboard
    \/ SalaryReport(Empty)

SpecReads == InitReads /\ [][NextReads]_vars

\* the answers of the three aggregations
AggregationKinds == {"dashboard", "salary_report", "milk_summary"}

\* C12: a request answered by the dashboard, the salary report or the milk
\* summary leaves every table as it was.
C12_PureReads ==
    [][response'.kind \in AggregationKinds => UNCHANGED db]_vars

\* C12 witness: an aggregation has answered over a store holding milk
\* records, a worker and a payment.
C12_Witness ==
    /\ response.kind \in AggregationKinds
    /\ milk_records # {}
    /\ workers # {}
    /\ salary_payments # {}

-----------------------------------------------------------------------------
(* The access specification: a browser logs in as the admin or as a user,   *)
(* or not at all, and sends the deleting requests, the backup download and  *)
(* the restore against a store that holds rows of every table.              *)

\* the account of a second registration
StaffUser ==
    [id |-> 2,
     username |-> RawText("staff", FALSE, FALSE),
     email |-> RawText("staff@x", FALSE, FALSE),
     mobile |-> RawText("200", FALSE, FALSE),
     password_hash |-> GeneratePasswordHash(OtherPassword),
     role |-> "user",
     reset_token |-> None,
     reset_expires_at |-> None]

WorkerRow(id) ==
    [id |-> id, name |-> Text("A"), mobile |-> Text("9"), joining_date |-> None,
     salary_per_month |-> Some(10), status |-> "active"]

AccessLoginForms ==
    {[username |-> RawText("admin", FALSE, FALSE), password |-> GoodPassword],
     [username |-> RawText("staff", FALSE, FALSE), password |-> OtherPassword]}

\* uploads: nothing, a text file, and a data file holding the admin only
AccessUploads ==
    {NoFile,
     [filename |-> "notes", ext |-> ".txt", content |-> << >>],
     [filename |-> "old", ext |-> ".db",
      content |-> <<{AdminUser}, {}, {}, {}, {}, {}>>]}

InitAccess ==
    /\ users = {AdminUser, StaffUser}
    /\ buffaloes = {BuffaloRow(1), BuffaloRow(2)}
    /\ workers = {WorkerRow(1), WorkerRow(2)}
    /\ salary_payments =
         {[id |-> 1, worker_id |-> 1, month |-> MonthOf(Date(2026, 3, 1)),
           amount |-> 5, date_paid |-> Date(2026, 3, 1)]}
    /\ expenses =
         {[id |-> 1, date |-> Date(2026, 3, 1), category |-> Text("feed"),
           amount |-> 5]}
    /\ milk_records =
         {[id |-> 1, buffalo_id |-> 1, date |-> Date(2026, 3, 1),
           morning_litres |-> Some(50), evening_litres |-> None]}
    /\ today = Date(2026, 3, 1)
    /\ session = NoSession
    /\ now = 0
    /\ sms = << >>
    /\ inflight = NoRequests
    /\ parked = NoSession
    /\ response = NoResponse

NextAccess ==
    \/ \E form \in AccessLoginForms : Login(form)
    \/ \E form \in AccessLoginForms : AdminLogin(form)
    \/ Logout
    \/ \E id \in 1..MaxBuffaloes : BuffaloDelete(id)
    \/ \E id \in 1..MaxWorkers : WorkerDelete(id)
    \/ \E id \in 1..MaxPayments : SalaryDelete(id)
    \/ \E id \in 1..MaxExpenses : ExpenseDelete(id)
    \/ \E id \in 1..MaxMilk : MilkRecordDelete(id)
    \/ \E id \in 1..MaxUsers : AdminUserDelete(id)
    \/ \E password \in {GoodPassword, OtherPassword} :
          AccountDelete([password |-> password])
    \/ BackupDownload
    \/ \E file \in AccessUploads : BackupRestore(file)

SpecAccess == InitAccess /\ [][NextAccess]_vars

\* a row of the table is gone after the step
RowGone(table, table_after) == \E r \in table : r \notin table_after

\* the step deletes an animal, a worker, a payment, an expense or a record
RecordDeleted ==
    \/ RowGone(buffaloes, buffaloes')
    \/ RowGone(workers, workers')
    \/ RowGone(salary_payments, salary_payments')
    \/ RowGone(expenses, expenses')
    \/ RowGone(milk_records, milk_records')

\* the step hands out the data file
BackupGiven == response'.kind = "backup_file" /\ response' # response

\* the session of an admin
IsAdminSession == session.user_id # None /\ session.role = "admin"

\* the admin-only requests, as steps
AdminGated ==
    \/ \E id \in 1..MaxBuffaloes : BuffaloDelete(id)
    \/ \E id \in 1..MaxWorkers : WorkerDelete(id)
    \/ \E id \in 1..MaxPayments : SalaryDelete(id)
    \/ \E id \in 1..MaxExpenses : ExpenseDelete(id)
    \/ \E id \in 1..MaxMilk : MilkRecordDelete(id)
    \/ \E id \in 1..MaxUsers : AdminUserDelete(id)
    \/ BackupDownload
    \/ \E file \in AccessUploads : BackupRestore(file)

\* C13 as stated: a step that deletes an animal, a worker, a payment, an
\* expense, a milk record or a user, or that hands out the backup, is taken
\* by a session whose role is 'admin'.
C13_AsStated ==
    [][(RecordDeleted \/ RowGone(users, users') \/ BackupGiven)
          => IsAdminSession]_vars

\* C13: deleting an animal, a worker, a payment, an expense or a milk
\* record, handing out the backup and restoring take an admin session; a
\* user is deleted either by an admin session or by account_delete, which
\* removes the session's own user, whose role is 'user', and ends the
\* session; in every other step of a session that is not an admin's the
\* store stays as it is, and an admin-only request of such a session is
\* answered by the redirect of admin_required.
C13_AdminOnly ==
    [][/\ (RecordDeleted \/ BackupGiven) => IsAdminSession
       /\ (RowGone(users, users') /\ ~IsAdminSession) =>
             /\ session.user_id # None
             /\ session.role = "user"
             /\ users' = users \ {u \in users : Some(u.id) = session.user_id}
             /\ session' = NoSession
             /\ UNCHANGED <<buffaloes, workers, salary_payments, expenses,
                            milk_records>>
       /\ (~IsAdminSession /\ ~RowGone(users, users')) => UNCHANGED db
       /\ (AdminGated /\ ~IsAdminSession) =>
             /\ response' = AdminDenied
             /\ response'.kind = "redirect"
             /\ UNCHANGED db]_vars

\* C13 witness: a user's session has just been denied an admin-only
\* request, over a store in which an admin has already deleted rows.
C13_Witness ==
    /\ session = [user_id |-> Some(2), role |-> "user"]
    /\ response = Redirect("dashboard", <<Flash("Admin access required.", "error")>>)
    /\ salary_payments = {}
    /\ expenses = {}
    /\ StaffUser \in users

-----------------------------------------------------------------------------
(* The registration specification: starting with no user, a browser         *)
(* registers accounts, logs in and out, resets a password by OTP and        *)
(* deletes accounts.                                                        *)

ShortPassword == Password("pass123", 7, TRUE, TRUE)

LettersPassword == Password("password", 8, TRUE, FALSE)

RegisterUsernames ==
    {RawText("amy", TRUE, FALSE), RawText("amy", FALSE, TRUE),
     RawText("bob", FALSE, FALSE)}

RegisterEmails ==
    {RawText("a@x", FALSE, FALSE), RawText("a@x", TRUE, TRUE),
     RawText("b@x", FALSE, FALSE)}

RegisterMobiles ==
    {RawText("1", FALSE, FALSE), RawText("1", TRUE, FALSE),
     RawText("2", FALSE, FALSE), Blank}

RegisterPasswords ==
    {<<GoodPassword, GoodPassword>>, <<GoodPassword, OtherPassword>>,
     <<ShortPassword, ShortPassword>>, <<LettersPassword, LettersPassword>>}

RegisterForms ==
    {[username |-> u, email |-> e, mobile |-> m,
      password |-> p[1], confirm_password |-> p[2]] :
        u \in RegisterUsernames, e \in RegisterEmails, m \in RegisterMobiles,
        p \in RegisterPasswords}

RegisterLoginForms ==
    {[username |-> u, password |-> GoodPassword] :
        u \in {RawText("amy", FALSE, FALSE), RawText("bob", FALSE, FALSE)}}

RegisterResetForms ==
    {[mobile |-> RawText("1", FALSE, FALSE), otp |-> otp,
      password |-> OtherPassword, confirm_password |-> OtherPassword] :
        otp \in OtpCodes}

InitRegister ==
    /\ users = {}
    /\ buffaloes = {}
    /\ workers = {}
    /\ salary_payments = {}
    /\ expenses = {}
    /\ milk_records = {}
    /\ today = Date(2026, 3, 1)
    /\ session = NoSession
    /\ now = 0
    /\ sms = << >>
    /\ inflight = NoRequests
    /\ parked = NoSession
    /\ response = NoResponse

NextRegister ==
    \/ \E form \in RegisterForms : Register(form)
    \/ \E form \in RegisterLoginForms : Login(form)
    \/ \E form \in RegisterLoginForms : AdminLogin(form)
    \/ Logout
    \/ ForgotPassword([mobile |-> RawText("1", TRUE, FALSE)])
    \/ \E form \in RegisterResetForms : ResetPasswordOtp(form)
    \/ \E password \in {GoodPassword, OtherPassword} :
          AccountDelete([password |-> password])
    \/ \E id \in 1..MaxUsers : AdminUserDelete(id)

SpecRegister == InitRegister /\ [][NextRegister]_vars

\* the users the step has added
NewUsers == {u \in users' : u.id \notin {v.id : v \in users}}

\* C14: a registration that succeeds while the users table is empty creates
\* an admin, and one that succeeds while a user exists creates a 'user'.
C14_FirstUserIsAdmin ==
    [][\A u \in NewUsers :
          /\ users = {} => u.role = "admin"
          /\ users # {} => u.role = "user"]_vars

\* C14 witness: an admin and a 'user' are stored, the admin registered
\* first.
C14_Witness ==
    /\ \E u \in users : u.role = "admin" /\ u.id = 1
    /\ \E u \in users : u.role = "user" /\ u.id > 1
    /\ response = Redirect("login",
          <<Flash("Account created successfully. Please login.", "success")>>)

\* C17: no two stored users have the same username, the same email or the
\* same mobile, and a registration adds a user only when nobody stored has
\* its username, its email or its mobile.
C17_UniqueUsers ==
    [][/\ \A u \in users', v \in users' :
             u # v => /\ u.id # v.id
                      /\ u.username # v.username
                      /\ u.email # v.email
                      /\ u.mobile # v.mobile
       /\ \A u \in NewUsers : \A v \in users :
             /\ u.username # v.username
             /\ u.email # v.email
             /\ u.mobile # v.mobile]_vars

\* C17 witness: a registration has just been refused because its email is
\* registered, with two users stored of whom one has reset a password.
C17_Witness ==
    /\ Cardinality(users) = 2
    /\ \E u \in users : u.password_hash = GeneratePasswordHash(OtherPassword)
    /\ response = Redirect("register",
          <<Flash("Email already registered.", "error")>>)

-----------------------------------------------------------------------------
(* The OTP specification: OTPs are requested for the two stored users, time *)
(* passes, and resets are tried with every code.                            *)

OtpMobiles == {RawText("100", FALSE, FALSE), RawText("200", TRUE, FALSE)}

OtpResetForms ==
    {[mobile |-> RawText("200", FALSE, FALSE), otp |-> otp,
      password |-> p[1], confirm_password |-> p[2]] :
        otp \in {RawText("111111", FALSE, FALSE), RawText("222222", TRUE, FALSE)},
        p \in {<<GoodPassword, GoodPassword>>, <<GoodPassword, OtherPassword>>}}

TickSteps == {5, 6}

InitOtp ==
    /\ users = {AdminUser, StaffUser}
    /\ buffaloes = {}
    /\ workers = {}
    /\ salary_payments = {}
    /\ expenses = {}
    /\ milk_records = {}
    /\ today = Date(2026, 3, 1)
    /\ session = NoSession
    /\ now = 0
    /\ sms = << >>
    /\ inflight = NoRequests
    /\ parked = NoSession
    /\ response = NoResponse

NextOtp ==
    \/ \E mobile \in OtpMobiles : ForgotPassword([mobile |-> mobile])
    \/ \E form \in OtpResetForms : ResetPasswordOtp(form)
    \/ \E minutes \in TickSteps : Tick(minutes)

SpecOtp == InitOtp /\ [][NextOtp]_vars

\* the messages sent to a mobile, oldest first
SentTo(mobile) == SelectSeq(sms, LAMBDA msg : msg.mobile = mobile)

\* the step changes the password hash of user u
HashChanged(u) ==
    \E v \in users' : v.id = u.id /\ v.password_hash # u.password_hash

\* C15: a reset request changes a user's password hash only when its OTP is
\* the one most recently sent to the user's mobile and no more than 10
\* minutes have passed since it was sent; a request with an earlier or an
\* expired OTP leaves every password hash as it was.
C15_OnlyLatestLiveOtp ==
    [][\A form \in OtpResetForms :
          ResetPasswordOtp(form) =>
             \A u \in users :
                LET sent == SentTo(u.mobile)
                    live == /\ sent # << >>
                            /\ Strip(form.otp) = sent[Len(sent)].otp
                            /\ now <= sent[Len(sent)].sent_at + 10
                IN  /\ HashChanged(u) => live /\ u.mobile = Strip(form.mobile)
                    /\ ~live => u \in users']_vars

\* C15 witness: two different OTPs were sent to the user, time has passed,
\* and a reset has changed the user's password.
C15_Witness ==
    /\ Len(SentTo(StaffUser.mobile)) = 2
    /\ sms[1].otp # sms[2].otp
    /\ now >= 10
    /\ \E u \in users : u.id = 2 /\ u.password_hash # StaffUser.password_hash
    /\ response = Redirect("login",
          <<Flash("Password updated successfully. Please login.", "success")>>)

\* C15, the expired case: a reset was refused as expired, 11 minutes or more
\* after the only OTP was sent.
C15_ExpiredWitness ==
    /\ Len(sms) = 1
    /\ now > sms[1].sent_at + 10
    /\ StaffUser \notin users
    /\ \E u \in users : u.id = 2 /\ u.password_hash = StaffUser.password_hash
    /\ response = Redirect("forgot_password",
          <<Flash("OTP expired. Please request a new one.", "error")>>)

-----------------------------------------------------------------------------
(* The validation specification: payments, expenses and milk records are    *)
(* added and edited with fields that are empty, unparsable or well formed.  *)

ValidationSalaryForms ==
    [worker_id : {Empty, Junk, Num(1)},
     month : {Empty, MonthOf(Date(2026, 3, 1))},
     amount : {Empty, Junk, Num(5)},
     date_paid : {Empty, Junk, DateStr(Date(2026, 3, 1))}]

ValidationExpenseForms ==
    [date : {Empty, Junk, DateStr(Date(2026, 3, 1))},
     category : {Empty, Text("feed")},
     amount : {Empty, Junk, Num(5)}]

ValidationMilkForms ==
    [buffalo_id : {Empty, Junk, Num(1)},
     date : {Empty, Junk, DateStr(Date(2026, 3, 1))},
     morning_litres : {Empty, Num(50)},
     evening_litres : {Empty}]

InitValidation ==
    /\ InitMilk(Date(2026, 3, 1))

NextValidation ==
    \/ \E form \in ValidationSalaryForms : SalaryAdd(form)
    \/ \E id \in 1..MaxPayments, form \in ValidationSalaryForms : SalaryEdit(id, form)
    \/ \E form \in ValidationExpenseForms : ExpenseAdd(form)
    \/ \E id \in 1..MaxExpenses, form \in ValidationExpenseForms : ExpenseEdit(id, form)
    \/ \E form \in ValidationMilkForms : MilkRecordAdd(form)
    \/ \E id \in 1..MaxMilk, form \in ValidationMilkForms : MilkRecordEdit(id, form)

SpecValidation == InitValidation /\ [][NextValidation]_vars

\* a required field of the form is empty, its date does not parse, or its
\* amount or id is not a number
Malformed(form, required, dates, numbers) ==
    \/ \E f \in required : form[f].t = "empty"
    \/ \E f \in dates : form[f].t # "date"
    \/ \E f \in numbers : form[f].t # "num"

\* the step rejects the submission: a redirect with an error message and
\* the store as it was
Rejected ==
    /\ response'.kind = "redirect"
    /\ \E i \in DOMAIN response'.flash : response'.flash[i].category = "error"
    /\ UNCHANGED db

\* C19 as stated: a create or edit submission for a payment, an expense or
\* a milk record with a missing or malformed required input is rejected
\* with a message and changes nothing.
C19_AsStated ==
    [][/\ \A form \in ValidationSalaryForms :
             ( /\ Malformed(form, {"worker_id", "month", "amount", "date_paid"},
                            {"date_paid"}, {"worker_id", "amount"})
               /\ \/ SalaryAdd(form)
                  \/ \E id \in Ids(salary_payments) : SalaryEdit(id, form) )
             => Rejected
       /\ \A form \in ValidationExpenseForms :
             ( /\ Malformed(form, {"date", "category", "amount"},
                            {"date"}, {"amount"})
               /\ \/ ExpenseAdd(form)
                  \/ \E id \in Ids(expenses) : ExpenseEdit(id, form) )
             => Rejected
       /\ \A form \in ValidationMilkForms :
             ( /\ Malformed(form, {"buffalo_id", "date"}, {"date"}, {"buffalo_id"})
               /\ \/ MilkRecordAdd(form)
                  \/ \E id \in Ids(milk_records) : MilkRecordEdit(id, form) )
             => Rejected]_vars

-----------------------------------------------------------------------------
(* The not-found specification: over a store whose rows are deleted one by  *)
(* one, every edit, delete, detail and summary request is sent with ids     *)
(* that are stored and ids that are not, by a user and by the admin.  The   *)
(* edits resubmit the stored values, but for the status of an animal.       *)

ProbeIds == 1..3

ProbeBuffaloForm ==
    [tag_name |-> Text("B"), animal_type |-> Empty, purchase_date |-> Empty,
     purchase_price |-> Empty, status |-> Text("sold")]

ProbeWorkerForm ==
    [name |-> Text("A"), mobile |-> Text("9"), joining_date |-> Empty,
     salary_per_month |-> Num(10), status |-> Empty]

ProbePaymentForm ==
    [worker_id |-> Num(1), month |-> MonthOf(Date(2026, 3, 1)), amount |-> Num(5),
     date_paid |-> DateStr(Date(2026, 3, 1))]

ProbeExpenseForm ==
    [date |-> DateStr(Date(2026, 3, 1)), category |-> Text("feed"),
     amount |-> Num(5)]

ProbeMilkForm == MilkForm(1, Date(2026, 3, 1), <<Num(50), Empty>>)

InitNotFound == InitAccess

NextNotFound ==
    \/ \E form \in AccessLoginForms : Login(form)
    \/ \E form \in AccessLoginForms : AdminLogin(form)
    \/ Logout
    \/ \E id \in ProbeIds : BuffaloEdit(id, ProbeBuffaloForm)
    \/ \E id \in ProbeIds : BuffaloDelete(id)
    \/ \E id \in ProbeIds : BuffaloDetail(id)
    \/ \E id \in ProbeIds : BuffaloMilkSummary(id)
    \/ \E id \in ProbeIds : WorkerEdit(id, ProbeWorkerForm)
    \/ \E id \in ProbeIds : WorkerDelete(id)
    \/ \E id \in ProbeIds : WorkerDetail(id)
    \/ \E id \in ProbeIds : SalaryEdit(id, ProbePaymentForm)
    \/ \E id \in ProbeIds : SalaryDelete(id)
    \/ \E id \in ProbeIds : ExpenseEdit(id, ProbeExpenseForm)
    \/ \E id \in ProbeIds : ExpenseDelete(id)
    \/ \E id \in ProbeIds : MilkRecordEdit(id, ProbeMilkForm)
    \/ \E id \in ProbeIds : MilkRecordDelete(id)
    \/ \E id \in ProbeIds : AdminUserDelete(id)

SpecNotFound == InitNotFound /\ [][NextNotFound]_vars

\* the step ends in the not-found outcome and changes no table
EndsNotFound == response'.kind = "not_found" /\ UNCHANGED db

\* a request for the row `id` of a table that has no such row, sent by a
\* session that may send it
Unknown(table, id, allowed) == allowed /\ \A r \in table : r.id # id

\* a session with a user, and a session of an admin
HasUser == session.user_id # None

HasAdmin == session.user_id # None /\ session.role = "admin"

\* C20: an edit, delete, detail or milk-summary request, from a session
\* that is allowed to send it, for an id that no stored entity of that kind
\* has, ends in the not-found outcome and leaves every table unchanged.
C20_NotFound ==
    [][\A id \in ProbeIds :
        /\ (BuffaloEdit(id, ProbeBuffaloForm) /\ Unknown(buffaloes, id, HasUser))
              => EndsNotFound
        /\ (BuffaloDelete(id) /\ Unknown(buffaloes, id, HasAdmin)) => EndsNotFound
        /\ (BuffaloDetail(id) /\ Unknown(buffaloes, id, HasUser)) => EndsNotFound
        /\ (BuffaloMilkSummary(id) /\ Unknown(buffaloes, id, HasUser))
              => EndsNotFound
        /\ (WorkerEdit(id, ProbeWorkerForm) /\ Unknown(workers, id, HasUser))
              => EndsNotFound
        /\ (WorkerDelete(id) /\ Unknown(workers, id, HasAdmin)) => EndsNotFound
        /\ (WorkerDetail(id) /\ Unknown(workers, id, HasUser)) => EndsNotFound
        /\ (SalaryEdit(id, ProbePaymentForm) /\ Unknown(salary_payments, id, HasUser))
              => EndsNotFound
        /\ (SalaryDelete(id) /\ Unknown(salary_payments, id, HasAdmin))
              => EndsNotFound
        /\ (ExpenseEdit(id, ProbeExpenseForm) /\ Unknown(expenses, id, HasUser))
              => EndsNotFound
        /\ (ExpenseDelete(id) /\ Unknown(expenses, id, HasAdmin)) => EndsNotFound
        /\ (MilkRecordEdit(id, ProbeMilkForm) /\ Unknown(milk_records, id, HasUser))
              => EndsNotFound
        /\ (MilkRecordDelete(id) /\ Unknown(milk_records, id, HasAdmin))
              => EndsNotFound
        /\ (AdminUserDelete(id) /\ Unknown(users, id, HasAdmin)) => EndsNotFound
      ]_vars

\* C20 witness: a user's session got the not-found outcome after the admin
\* had deleted the only milk record and the only expense.
C20_Witness ==
    /\ response.kind = "not_found"
    /\ session.role = "user"
    /\ milk_records = {}
    /\ expenses = {}
    /\ buffaloes # {}

-----------------------------------------------------------------------------
(* The failure specification: milk records around the alert threshold are   *)
(* added and deleted, and the dashboard is read while the data store may    *)
(* fail in one of its sections.                                             *)

FailureForms ==
    {MilkForm(1, d, l) :
        d \in {PrevDay(today), today},
        l \in {<<Num(50), Num(50)>>, <<Num(19), Num(50)>>}}

InitFailure == InitMilk(Date(2026, 3, 1))

NextFailure ==
    \/ \E form \in FailureForms : MilkRecordAdd(form)
    \/ \E id \in 1..MaxMilk : MilkRecordDelete(id)
    \/ \E failure \in QuerySections : DashboardUnder(failure)

SpecFailure == InitFailure /\ [][NextFailure]_vars

\* C21 as stated: no dashboard result has an empty or zero value in the
\* place of a computation that failed: a dashboard that is shown lists the
\* low-yield alerts of the stored records.
C21_AsStated ==
    response.kind = "dashboard" =>
        /\ response.low_milk_alerts = LowMilkAlerts(today)
        /\ response.low_milk_count = Len(LowMilkAlerts(today))

-----------------------------------------------------------------------------
(* Requests served at the same time.  The development server gives every   *)
(* request its own thread and its own database session; a handler is cut   *)
(* where it reads the store and where it commits, and the steps of         *)
(* different requests interleave.                                          *)

\* the database session of request r has a connection to the data file
\* checked out: it has run a query and has not committed or been removed
HoldsConnection(r) == inflight[r].pc \in {"worker_edit", "register"}

\* the attributes worker_edit assigns to the worker it loaded
AssignedWorker(worker, form) ==
    [id |-> worker.id,
     name |-> form.name,
     mobile |-> form.mobile,
     joining_date |-> IF IsDate(form.joining_date)
                      THEN Some(form.joining_date.v)
                      ELSE worker.joining_date,
     salary_per_month |-> OptInt(form.salary_per_month),
     status |-> StatusOf(form.status)]

\* db.session.commit() of an object loaded as `loaded` and now `assigned`:
\* the UPDATE sets the columns whose value differs from the loaded one
Flushed(loaded, assigned, stored) ==
    [c \in DOMAIN stored |->
        IF assigned[c] # loaded[c] THEN assigned[c] ELSE stored[c]]

\* POST /workers/<worker_id>/edit, up to Worker.query.get_or_404
WorkerEditLoad(r, worker_id, form) ==
    /\ inflight[r] = Idle
    /\ IF ~LoginPasses THEN Answer(LoginDenied)
       ELSE IF ~Exists(workers, worker_id) THEN Answer(NotFound)
       ELSE Proceed(r, [pc |-> "worker_edit", form |-> form, stale |-> FALSE,
                        worker |-> Get(workers, worker_id)])

\* POST /workers/<worker_id>/edit, from the assignments to the redirect
WorkerEditCommit(r) ==
    /\ inflight[r].pc = "worker_edit"
    /\ LET form == inflight[r].form
           worker == inflight[r].worker
           assigned == AssignedWorker(worker, form)
           done == Redirect("worker_list",
                       DateFlash(form.joining_date, "Invalid joining date")
                       \o <<Flash("Worker updated successfully!", "success")>>)
       IN  IF Missing(form.name) \/ Missing(form.mobile)
           THEN Finish(r, Redirect("worker_edit",
                    <<Flash("Name and mobile are required", "error")>>))
           ELSE IF ~Missing(form.salary_per_month)
                   /\ ~IsNumber(form.salary_per_month)
           THEN Finish(r, ServerError)
           ELSE IF assigned = worker \/ inflight[r].stale
           THEN Finish(r, done)
           ELSE IF ~Exists(workers, worker.id)
           THEN Finish(r, ServerError)
           ELSE /\ workers' = (workers \ {Get(workers, worker.id)}) \cup
                     {Flushed(worker, assigned, Get(workers, worker.id))}
                /\ response' = done
                /\ inflight' = Moved(r, Idle)
                /\ UNCHANGED <<salary_payments, expenses, buffaloes,
                               milk_records, today, parked, session, users,
                               now, sms>>

\* POST /backup, up to file.save(tmp_path)
RestoreUpload(r, file) ==
    /\ inflight[r] = Idle
    /\ IF ~AdminPasses THEN Answer(AdminDenied)
       ELSE IF file.filename = ""
       THEN Answer(Redirect("backup_page",
               <<Flash("Please choose a .db or .sqlite file to upload.",
                       "error")>>))
       ELSE IF file.ext \notin {".db", ".sqlite"}
       THEN Answer(Redirect("backup_page",
               <<Flash("Invalid file type. Upload a .db or .sqlite file.",
                       "error")>>))
       ELSE Proceed(r, [pc |-> "restore_saved", file |-> file])

\* POST /backup: db.session.remove() closes the session of this request
RestoreRemove(r) ==
    /\ inflight[r].pc = "restore_saved"
    /\ Proceed(r, [pc |-> "restore_removed", file |-> inflight[r].file])

\* POST /backup: os.replace(tmp_path, db_path).  A connection another
\* request holds stays on the file that was replaced.
RestoreReplace(r) ==
    /\ inflight[r].pc = "restore_removed"
    /\ \/ Finish(r, Redirect("backup_page", <<Flash("Restore failed", "error")>>))
       \/ LET file == inflight[r].file
          IN  /\ users' = file.content[1]
              /\ buffaloes' = file.content[2]
              /\ workers' = file.content[3]
              /\ salary_payments' = file.content[4]
              /\ expenses' = file.content[5]
              /\ milk_records' = file.content[6]
              /\ inflight' =
                   [q \in Requests |->
                      IF q = r THEN Idle
                      ELSE IF HoldsConnection(q)
                      THEN [inflight[q] EXCEPT !.stale = TRUE]
                      ELSE inflight[q]]
              /\ response' = Redirect("dashboard",
                     <<Flash("Database restored successfully. Please reload pages.",
                             "success")>>)
              /\ UNCHANGED <<today, parked, session, now, sms>>

-----------------------------------------------------------------------------
(* The restore specification: an admin restores the data file while edits   *)
(* of a worker are being served.                                            *)

EditForms ==
    [name : {Text("A"), Text("B")}, mobile : {Text("9")},
     joining_date : {Empty},
     salary_per_month : {Num(10), Num(20)},
     status : {Empty}]

RestoreUploads ==
    {NoFile,
     [filename |-> "old", ext |-> ".db",
      content |-> <<{AdminUser}, {}, {WorkerRow(1)}, {}, {}, {}>>]}

InitEdits ==
    /\ users = {AdminUser, StaffUser}
    /\ buffaloes = {}
    /\ workers = {WorkerRow(1)}
    /\ salary_payments = {}
    /\ expenses = {}
    /\ milk_records = {}
    /\ today = Date(2026, 3, 1)
    /\ session = AdminSession
    /\ now = 0
    /\ sms = << >>
    /\ inflight = NoRequests
    /\ parked = NoSession
    /\ response = NoResponse

NextRestore ==
    \/ \E r \in Requests, form \in EditForms : WorkerEditLoad(r, 1, form)
    \/ \E r \in Requests : WorkerEditCommit(r)
    \/ \E r \in Requests, file \in RestoreUploads : RestoreUpload(r, file)
    \/ \E r \in Requests : RestoreRemove(r)
    \/ \E r \in Requests : RestoreReplace(r)

SpecRestore == InitEdits /\ [][NextRestore]_vars

\* request r replaces the data file in this step
Replaces(r) ==
    /\ RestoreReplace(r)
    /\ response'.kind = "redirect"
    /\ response'.location = "dashboard"

\* C22 as stated: the data file is replaced only after every connection in
\* flight has been released: no request replaces the file while another
\* request holds a connection to it.
C22_AsStated ==
    [][\A r \in Requests :
         Replaces(r) => \A q \in Requests \ {r} : ~HoldsConnection(q)]_vars

-----------------------------------------------------------------------------
(* The edit specification: two edits of worker 1 are served at the same     *)
(* time.                                                                    *)

NextEdits ==
    \/ \E r \in Requests, form \in EditForms : WorkerEditLoad(r, 1, form)
    \/ \E r \in Requests : WorkerEditCommit(r)

SpecEdits == InitEdits /\ [][NextEdits]_vars

\* request r commits its edit in this step
Commits(r) ==
    /\ WorkerEditCommit(r)
    /\ response'.kind = "redirect"
    /\ response'.location = "worker_list"

\* C23 as stated: the last write wins: when a request commits its edit,
\* every stored field of the worker has the value that request submitted,
\* whatever another request committed since it loaded the worker.
C23_AsStated ==
    [][\A r \in Requests :
         Commits(r) =>
            Get(workers', inflight[r].worker.id) =
                AssignedWorker(inflight[r].worker, inflight[r].form)]_vars

-----------------------------------------------------------------------------
(* Registration served in steps *)

\* the message register refuses the form with, if it does
RegisterRefusal(form) ==
    LET username == Strip(form.username)
        email == Lower(Strip(form.email))
        mobile == Strip(form.mobile)
    IN  IF Missing(username) \/ Missing(email) \/ Missing(mobile)
           \/ Missing(form.password)
        THEN Some("Username, email, mobile and password are required.")
        ELSE IF form.password # form.confirm_password
        THEN Some("Passwords do not match.")
        ELSE IF ~ValidatePassword(form.password)[1]
        THEN Some(ValidatePassword(form.password)[2])
        ELSE IF Taken("username", username)
        THEN Some("Username already taken.")
        ELSE IF Taken("email", email)
        THEN Some("Email already registered.")
        ELSE IF Taken("mobile", mobile)
        THEN Some("Mobile number already registered.")
        ELSE None

\* POST /register, up to the User object: the checks and the count query
RegisterCheck(r, form) ==
    /\ inflight[r] = Idle
    /\ IF LoggedIn THEN Answer(Redirect("dashboard", << >>))
       ELSE IF RegisterRefusal(form) # None
       THEN Answer(Redirect("register",
               <<Flash(RegisterRefusal(form)[1], "error")>>))
       ELSE Proceed(r, [pc |-> "register", stale |-> FALSE,
                        user |-> [username |-> Strip(form.username),
                                  email |-> Lower(Strip(form.email)),
                                  mobile |-> Strip(form.mobile),
                                  password_hash |->
                                      GeneratePasswordHash(form.password),
                                  role |-> RoleOfNewUser,
                                  reset_token |-> None,
                                  reset_expires_at |-> None]])

\* POST /register, db.session.add(user) and commit: the unique columns
\* refuse a value that a row committed in the meantime has
RegisterInsert(r) ==
    /\ inflight[r].pc = "register"
    /\ LET user == inflight[r].user
           done == Redirect("login",
                       <<Flash("Account created successfully. Please login.",
                               "success")>>)
       IN  IF inflight[r].stale THEN Finish(r, done)
           ELSE IF Taken("username", user.username)
                   \/ Taken("email", user.email)
                   \/ Taken("mobile", user.mobile)
           THEN Finish(r, ServerError)
           ELSE /\ NextId(users) <= MaxUsers
                /\ users' = users \cup
                     {[id |-> NextId(users),
                       username |-> user.username,
                       email |-> user.email,
                       mobile |-> user.mobile,
                       password_hash |-> user.password_hash,
                       role |-> user.role,
                       reset_token |-> None,
                       reset_expires_at |-> None]}
                /\ response' = done
                /\ inflight' = Moved(r, Idle)
                /\ UNCHANGED <<workers, salary_payments, expenses, buffaloes,
                               milk_records, today, parked, session, now, sms>>

-----------------------------------------------------------------------------
(* The race specification: registrations are served at the same time,      *)
(* starting on an empty users table.                                       *)

RaceForms ==
    {[username |-> u, email |-> e, mobile |-> m,
      password |-> GoodPassword, confirm_password |-> p] :
        u \in {RawText("amy", FALSE, FALSE), RawText("bob", FALSE, FALSE)},
        e \in {RawText("a@x", FALSE, FALSE), RawText("b@x", FALSE, FALSE)},
        m \in {RawText("1", FALSE, FALSE), RawText("2", FALSE, FALSE)},
        p \in {GoodPassword, OtherPassword}}

NextRace ==
    \/ \E r \in Requests, form \in RaceForms : RegisterCheck(r, form)
    \/ \E r \in Requests : RegisterInsert(r)

SpecRace == InitRegister /\ [][NextRace]_vars

\* the stored users with role 'admin'
Admins == {u \in users : u.role = "admin"}

\* C30 as stated: of the users that registrations served at the same time
\* create on an empty users table, at most one has the role 'admin'.
C30_AsStated == Cardinality(Admins) <= 1

-----------------------------------------------------------------------------
(* The sessions specification: two browsers, each with its own session     *)
(* cookie, register, log in and out and delete accounts, one request at a   *)
(* time.                                                                    *)

\* the next request comes from the other browser
SwitchBrowser ==
    /\ session' = parked
    /\ parked' = session
    /\ UNCHANGED <<workers, salary_payments, expenses, buffaloes, milk_records,
                   today, inflight, users, now, sms, response>>

SessionLoginForms ==
    {[username |-> u, password |-> p] :
        u \in {RawText("amy", FALSE, FALSE), RawText("bob", FALSE, FALSE)},
        p \in {GoodPassword, OtherPassword}}

NextSessions ==
    \/ \E form \in RaceForms : Register(form)
    \/ \E form \in SessionLoginForms : Login(form)
    \/ \E form \in SessionLoginForms : AdminLogin(form)
    \/ Logout
    \/ \E password \in {GoodPassword, OtherPassword} :
          AccountDelete([password |-> password])
    \/ \E id \in 1..MaxUsers : AdminUserDelete(id)
    \/ Dashboard
    \/ SwitchBrowser

SpecSessions == InitRegister /\ [][NextSessions]_vars

\* exactly one admin is stored when a user is stored, and none otherwise
OneAdmin ==
    /\ users = {} => Admins = {}
    /\ users # {} => Cardinality(Admins) = 1

\* C24: with one request at a time and no restore, exactly one stored user
\* has the role 'admin' whenever a user is stored, and none otherwise: no
\* step changes the role of a stored user, a registration while a user is
\* stored creates a 'user', and no step removes an admin.
C24_OneAdmin ==
    [][/\ OneAdmin
       /\ OneAdmin'
       /\ \A u \in users, v \in users' : u.id = v.id => u.role = v.role
       /\ \A u \in NewUsers : users # {} => u.role = "user"
       /\ \A u \in Admins : \E v \in users' : v.id = u.id]_vars

\* C24 witness: the admin has asked to delete the admin account while a
\* 'user' is stored too, and has been refused.
C24_Witness ==
    /\ Cardinality(users) = 2
    /\ Cardinality(Admins) = 1
    /\ response = Redirect("admin_users",
          <<Flash("Admin accounts cannot be deleted from this page.", "error")>>)

\* C25 as stated: every request that passes login_required comes from a
\* session that refers to a stored user: the dashboard is not shown to the
\* session of a user that has been deleted.
C25_AsStated ==
    [][(Dashboard /\ response'.kind = "dashboard") =>
          \E u \in users : session.user_id = Some(u.id)]_vars

\* the user u is one the login query finds for the form, and the form has
\* u's password
Credentials(form, u) ==
    /\ u \in LoginMatches(Strip(form.username))
    /\ CheckPasswordHash(u.password_hash, form.password)

\* the messages login and admin_login refuse a form with
LoginRefusals ==
    {"Invalid username/email or password.",
     "This is an admin account. Please use Admin Login.",
     "This is not an admin account."}

\* the answer r refuses a login
RefusesLogin(r) ==
    /\ r.kind = "redirect"
    /\ \E i \in DOMAIN r.flash : r.flash[i].message \in LoginRefusals

\* the step establishes the session of user u
Establishes(u) == session' = [user_id |-> Some(u.id), role |-> u.role]

\* C26 as stated: a failed login of either kind leaves the session without
\* a user.
C26_AsStated ==
    [][\A form \in SessionLoginForms :
          ((Login(form) \/ AdminLogin(form)) /\ RefusesLogin(response'))
              => session'.user_id = None]_vars

\* C26: a session gets the role 'admin' only from admin_login, given the
\* password of a stored admin; login establishes sessions of 'user' accounts
\* only and admin_login of admin accounts only, each for a user whose
\* password the form has; a refused login of either kind leaves the session
\* as it was.
C26_LoginRoles ==
    [][/\ (session'.role = "admin" /\ session.role # "admin") =>
             \/ SwitchBrowser
             \/ \E form \in SessionLoginForms :
                   /\ AdminLogin(form)
                   /\ \E u \in users :
                         u.role = "admin" /\ Credentials(form, u) /\ Establishes(u)
       /\ \A form \in SessionLoginForms :
             /\ Login(form) =>
                   \/ session' = session
                   \/ \E u \in users :
                         u.role = "user" /\ Credentials(form, u) /\ Establishes(u)
             /\ AdminLogin(form) =>
                   \/ session' = session
                   \/ \E u \in users :
                         u.role = "admin" /\ Credentials(form, u) /\ Establishes(u)
             /\ ((Login(form) \/ AdminLogin(form)) /\ RefusesLogin(response'))
                   => session' = session]_vars

\* C26 witness: one browser is logged in as admin, the other as 'user', and
\* the last request was a login that succeeded.
C26_Witness ==
    /\ {session.role, parked.role} = {"admin", "user"}
    /\ response.kind = "redirect"
    /\ response.location = "next_url"

-----------------------------------------------------------------------------
(* Single use of an OTP, under the OTP specification *)

PasswordUpdated ==
    Redirect("login",
        <<Flash("Password updated successfully. Please login.", "success")>>)

\* C27: an OTP is used once: a reset that succeeds clears the user's
\* reset_token and reset_expires_at; while the token is cleared every reset
\* request for that user is rejected and leaves the stored users, password
\* hashes included, as they are; and only forgot_password sets a token again.
C27_SingleUse ==
    [][/\ \A form \in OtpResetForms :
             ResetPasswordOtp(form) =>
                \A u \in users :
                   u.mobile = Strip(form.mobile) =>
                      /\ response' = PasswordUpdated =>
                            \E v \in users' :
                               /\ v.id = u.id
                               /\ v.reset_token = None
                               /\ v.reset_expires_at = None
                      /\ u.reset_token = None =>
                            /\ users' = users
                            /\ response' =
                                 Redirect("reset_password_otp",
                                     <<Flash("Invalid OTP.", "error")>>)
       /\ \A u \in users, v \in users' :
             (u.id = v.id /\ u.reset_token = None /\ v.reset_token # None) =>
                \E mobile \in OtpMobiles : ForgotPassword([mobile |-> mobile])]_vars

\* C27 witness: one OTP was sent to the user, a reset with it has changed
\* the password and cleared the token, and a further reset request has been
\* rejected.
C27_Witness ==
    /\ Len(SentTo(StaffUser.mobile)) = 1
    /\ \E u \in users :
          /\ u.id = 2
          /\ u.password_hash = GeneratePasswordHash(GoodPassword)
          /\ u.reset_token = None
          /\ u.reset_expires_at = None
    /\ response = Redirect("reset_password_otp", <<Flash("Invalid OTP.", "error")>>)

-----------------------------------------------------------------------------
(* The dashboard's due list against the salary report, under the salary     *)
(* specification                                                            *)

\* worker, expected, paid and due of the entries of a list
Figures(rows) ==
    {[worker |-> rows[i].worker, expected |-> rows[i].expected,
      paid |-> rows[i].paid, due |-> rows[i].due] : i \in DOMAIN rows}

\* the dashboard's due list for the current month
DashboardDue == Figures(DueWorkers(MonthOf(today)))

\* the report's rows with due > 0 for the current month
ReportDue == {row \in Figures(ReportRows(MonthOf(today))) : row.due > 0}

-----------------------------------------------------------------------------
(* The forms specification: animals and workers are added and edited with   *)
(* names and optional dates that are empty, unparsable or well formed.      *)

AnimalForms ==
    [tag_name : {Empty, Text("T")}, animal_type : {Empty},
     purchase_date : {Empty, Junk, DateStr(Date(2026, 3, 1))},
     purchase_price : {Empty, Num(5)},
     status : {Empty}]

StaffForms ==
    [name : {Empty, Text("B")}, mobile : {Text("9")},
     joining_date : {Empty, Junk, DateStr(Date(2026, 3, 1))},
     salary_per_month : {Empty, Num(20)},
     status : {Empty}]

NextForms ==
    \/ \E form \in AnimalForms : BuffaloAdd(form)
    \/ \E id \in 1..MaxBuffaloes, form \in AnimalForms : BuffaloEdit(id, form)
    \/ \E form \in StaffForms : WorkerAdd(form)
    \/ \E id \in 1..MaxWorkers, form \in StaffForms : WorkerEdit(id, form)

SpecForms == InitEdits /\ [][NextForms]_vars

\* the error messages of the add and edit handlers of animals and workers
FormErrors ==
    {"Tag/Name is required", "Invalid purchase date",
     "Name and mobile are required", "Invalid joining date"}

\* the answer r carries one of the error messages
ReportsError(r) ==
    /\ r.kind = "redirect"
    /\ \E i \in DOMAIN r.flash : r.flash[i].message \in FormErrors

\* C29 as stated: a submission that an add or edit handler of animals or
\* workers answers with one of its error messages creates no row and
\* changes no stored field.
C29_AsStated == [][ReportsError(response') => UNCHANGED db]_vars

=============================================================================
